---- MODULE Spec2Model ----
(***************************************************************************)
(* A model of the libvirt MCP handlers (src/handlers.py): the image        *)
(* resolver, the VM lifecycle tools (create, start, shutdown, destroy,     *)
(* rename), the cloud-init create variants and the address discovery       *)
(* chain of get_vm_ip.                                                     *)
(*                                                                         *)
(* Every tool call is one action: the handler runs to completion and its   *)
(* result is put in `last`; Respond hands the result to the caller and     *)
(* makes the server idle again.  The outcome of each external call (a      *)
(* hypervisor API call, a download, an SSH command, a packaging tool) is   *)
(* an input of the action, drawn with \E.                                  *)
(***************************************************************************)
EXTENDS Integers, Sequences, FiniteSets, TLC

VARIABLES
    LIBVIRT_DEFAULT_URI,  \* the module-level hypervisor URI (set at import)
    tools,                \* the local commands found at import (not None)
    domains,              \* hypervisor: name -> domain (only existing names)
    cacheFiles,           \* local images directory: cache path -> file state
    localFs,              \* image paths that exist on the local filesystem
    remoteFs,             \* image paths that exist on the remote host
    isoFiles,             \* <images-dir>/<name>-cloudinit.iso: [host, name]
    diskFiles,            \* <images-dir>/<name>.qcow2: [host, name] -> content
    agent,                \* guest agent answer of each VM
    leases,               \* DHCP lease table of each virtual network
    arpTable,             \* output of `arp -a` on the local host
    last,                 \* the request just handled, with its result
    prev                  \* the image resolution answered before `last`

cfgVars == <<LIBVIRT_DEFAULT_URI, tools>>
hvVars  == <<domains>>
fsVars  == <<cacheFiles, localFs, remoteFs, isoFiles, diskFiles>>
netVars == <<agent, leases, arpTable>>
vars == <<LIBVIRT_DEFAULT_URI, tools, domains, cacheFiles, localFs, remoteFs,
          isoFiles, diskFiles, agent, leases, arpTable, last, prev>>

-----------------------------------------------------------------------------
(* Bounds of the model *)

NumVms == 2

NameOf == <<"webA", "db1", "vm3", "vm4">>
VmNames == {NameOf[i] : i \in 1..NumVms}

Idle == [op |-> "idle"]

-----------------------------------------------------------------------------
(* Hypervisor target *)

LocalUri == "qemu:///system"
SshUri == "qemu+ssh://ubuntu@kvm/system"
Uris == {LocalUri, SshUri}

\* the commands import_sh_cmd looks for and the cloud-init variants use
AllTools == {"cloud_localds", "genisoimage", "mkisofs", "virt_install"}

\* `"ssh://" in LIBVIRT_DEFAULT_URI`
IsSsh(uri) == uri = SshUri

-----------------------------------------------------------------------------
(* Image references: URLs and plain paths, as urlparse splits them *)

UrlBase   == [scheme |-> "https", netloc |-> "example.com",
              path |-> <<"base.img">>, query |-> ""]
UrlMirror == [scheme |-> "http", netloc |-> "mirror.org",
              path |-> <<"pub", "base.img">>, query |-> ""]
UrlDir    == [scheme |-> "ftp", netloc |-> "example.com",
              path |-> <<"images", "">>, query |-> ""]
PathNoble == [scheme |-> "", netloc |-> "",
              path |-> <<"data", "noble.img">>, query |-> ""]
PathJammy == [scheme |-> "", netloc |-> "",
              path |-> <<"data", "jammy.img">>, query |-> ""]
PathFile  == [scheme |-> "file", netloc |-> "",
              path |-> <<"srv", "base.img">>, query |-> ""]

AllRefs == <<UrlBase, UrlMirror, UrlDir, PathNoble, PathJammy, PathFile>>
Refs == {AllRefs[i] : i \in 1..Len(AllRefs)}

_is_url(path_or_url) ==
    path_or_url.scheme \in {"http", "https", "ftp", "ftps"}

Urls == {r \in Refs : _is_url(r)}
PlainPaths == {r \in Refs : ~_is_url(r)}

\* hashlib.md5(url.encode()).hexdigest(): one digest per distinct URL text
Md5Table == <<"0f3a", "9e10", "77c3", "b1d4", "c2e5", "5a96">>
md5(url) == Md5Table[CHOOSE i \in 1..Len(AllRefs) : AllRefs[i] = url]

\* os.path.basename(parsed.path): what follows the last "/"
basename(path) == IF path = <<>> THEN "" ELSE path[Len(path)]

ImagesDir == "/var/lib/libvirt/images"

_get_cache_path(url) ==
    LET url_hash == md5(url)
        filename == IF basename(url.path) = ""
                    THEN <<"image_", url_hash, ".qcow2">>
                    ELSE <<basename(url.path)>>
    IN  [dir |-> ImagesDir, file |-> <<"cached_", url_hash, "_">> \o filename]

CachePaths == {_get_cache_path(u) : u \in Urls}

NoPath == [dir |-> "", file |-> <<>>]
PlainPath(ref) == [dir |-> "", file |-> ref.path]

DownloadOutcomes == {"ok", "refused", "interrupted"}

\* _download_image: urlopen runs before the cache file is opened for writing,
\* so a refused request creates no file; an error while the chunks are copied
\* leaves what was written so far.
_download_image(url, cache_path, cache, dl) ==
    CASE dl = "ok" ->
            [success |-> TRUE,
             cache |-> [cache EXCEPT ![cache_path] = "complete"]]
      [] dl = "refused" ->
            [success |-> FALSE, cache |-> cache]
      [] OTHER ->
            [success |-> FALSE,
             cache |-> [cache EXCEPT ![cache_path] = "partial"]]

SshOutcomes == {"ok", "unreachable"}

\* the URL branch without the look at the cache: every resolution downloads
ResolveUrlNoCacheCheck(url, cache, dl) ==
    LET cache_path == _get_cache_path(url)
        d == _download_image(url, cache_path, cache, dl)
    IN  IF d.success
        THEN [path |-> cache_path, error |-> "", cache |-> d.cache,
              downloads |-> 1]
        ELSE [path |-> NoPath, error |-> "Failed to download image",
              cache |-> d.cache, downloads |-> 1]

\* _resolve_image_path, the URL branch.  dl is the outcome of the download.
ResolveUrl(url, cache, dl) ==
    LET cache_path == _get_cache_path(url) IN
    IF cache[cache_path] # "absent"
    THEN [path |-> cache_path, error |-> "", cache |-> cache, downloads |-> 0]
    ELSE LET d == _download_image(url, cache_path, cache, dl) IN
         IF d.success
         THEN [path |-> cache_path, error |-> "", cache |-> d.cache,
               downloads |-> 1]
         ELSE [path |-> NoPath, error |-> "Failed to download image",
               cache |-> d.cache, downloads |-> 1]

\* the path branch looking at the local filesystem whatever the transport is
ResolvePlainLocalOnly(ref, cache, lfs, rfs, uri, ssh) ==
    IF ref \in lfs
    THEN [path |-> PlainPath(ref), error |-> "", cache |-> cache,
          downloads |-> 0]
    ELSE [path |-> NoPath, error |-> "Local image path does not exist",
          cache |-> cache, downloads |-> 0]

\* _resolve_image_path, the path branch.  ssh is the outcome of the SSH
\* session that runs `test -f` on the remote host.
ResolvePlain(ref, cache, lfs, rfs, uri, ssh) ==
    IF IsSsh(uri)
    THEN IF ssh = "ok" /\ ref \in rfs
         THEN [path |-> PlainPath(ref), error |-> "", cache |-> cache,
               downloads |-> 0]
         ELSE [path |-> NoPath, error |-> "Remote image path does not exist",
               cache |-> cache, downloads |-> 0]
    ELSE IF ref \in lfs
         THEN [path |-> PlainPath(ref), error |-> "", cache |-> cache,
               downloads |-> 0]
         ELSE [path |-> NoPath, error |-> "Local image path does not exist",
               cache |-> cache, downloads |-> 0]

_resolve_image_path(path_or_url, cache, lfs, rfs, uri, dl, ssh) ==
    IF _is_url(path_or_url)
    THEN ResolveUrl(path_or_url, cache, dl)
    ELSE ResolvePlain(path_or_url, cache, lfs, rfs, uri, ssh)

-----------------------------------------------------------------------------
(* The hypervisor, as the handlers use it through the libvirt API *)

Put(doms, name, d) ==
    [m \in DOMAIN doms \cup {name} |-> IF m = name THEN d ELSE doms[m]]

Drop(doms, name) == [m \in DOMAIN doms \ {name} |-> doms[m]]

UsedUuids(doms) == {doms[m].xml.uuid : m \in DOMAIN doms}

\* the UUID the hypervisor gives a descriptor that carries none
FreshUuid(doms) ==
    LET free == (1..(NumVms + 2)) \ UsedUuids(doms)
    IN  CHOOSE u \in free : \A v \in free : u <= v

\* conn.defineXML(xml): a name or a UUID held by another domain is refused
defineXML(doms, xml) ==
    LET uuid == IF xml.uuid = 0 THEN FreshUuid(doms) ELSE xml.uuid
        same == xml.name \in DOMAIN doms /\ doms[xml.name].xml.uuid = uuid
        clash == \/ xml.name \in DOMAIN doms /\ doms[xml.name].xml.uuid # uuid
                 \/ \E m \in DOMAIN doms \ {xml.name} : doms[m].xml.uuid = uuid
    IN  IF clash
        THEN [ok |-> FALSE, doms |-> doms]
        ELSE [ok |-> TRUE,
              doms |-> Put(doms, xml.name,
                           [xml |-> [xml EXCEPT !.uuid = uuid],
                            active |-> same /\ doms[xml.name].active,
                            persistent |-> TRUE])]

\* domain.undefine(): a running domain loses its persistent configuration and
\* keeps running as a transient domain; a transient domain cannot be undefined
undefine(doms, name) ==
    IF name \notin DOMAIN doms \/ ~doms[name].persistent
    THEN [ok |-> FALSE, doms |-> doms]
    ELSE IF doms[name].active
         THEN [ok |-> TRUE,
               doms |-> [doms EXCEPT ![name].persistent = FALSE]]
         ELSE [ok |-> TRUE, doms |-> Drop(doms, name)]

\* the guest stops: a persistent domain becomes inactive, a transient one is gone
PowerOff(doms, name) ==
    IF doms[name].persistent
    THEN [doms EXCEPT ![name].active = FALSE]
    ELSE Drop(doms, name)

\* domain.create()
create(doms, name) == [doms EXCEPT ![name].active = TRUE]

-----------------------------------------------------------------------------
(* Internal helpers of register_handlers.  `fault` names the one external   *)
(* call of the request that raises libvirtError ("none": no call fails).    *)

MsgOK == "OK"
MsgLibvirt == "Libvirt error"
MsgNotFound == "VM not found"
MsgAlreadyRunning == "VM is already running"
MsgStartFailed == "Failed to start VM"
MsgStopFailed == "Failed to stop VM"

\* a start that does not look at isActive(): create() of a running domain
\* raises libvirtError
StartUnchecked(doms, vm_name, fault) ==
    IF fault = "start.open"
    THEN [success |-> FALSE, message |-> MsgLibvirt, doms |-> doms,
          calls |-> <<>>]
    ELSE IF vm_name \notin DOMAIN doms \/ fault = "start.lookup"
    THEN [success |-> FALSE, message |-> MsgNotFound, doms |-> doms,
          calls |-> <<>>]
    ELSE IF doms[vm_name].active \/ fault = "start.create"
    THEN [success |-> FALSE, message |-> MsgStartFailed, doms |-> doms,
          calls |-> <<"create">>]
    ELSE [success |-> TRUE, message |-> MsgOK, doms |-> create(doms, vm_name),
          calls |-> <<"create">>]

\* `calls`: the state-changing hypervisor calls the helper issued
_start_vm(doms, vm_name, fault) ==
    IF fault = "start.open"
    THEN [success |-> FALSE, message |-> MsgLibvirt, doms |-> doms,
          calls |-> <<>>]
    ELSE IF vm_name \notin DOMAIN doms \/ fault = "start.lookup"
    THEN [success |-> FALSE, message |-> MsgNotFound, doms |-> doms,
          calls |-> <<>>]
    ELSE IF doms[vm_name].active
    THEN [success |-> FALSE, message |-> MsgAlreadyRunning, doms |-> doms,
          calls |-> <<>>]
    ELSE IF fault = "start.create"
    THEN [success |-> FALSE, message |-> MsgStartFailed, doms |-> doms,
          calls |-> <<"create">>]
    ELSE [success |-> TRUE, message |-> MsgOK, doms |-> create(doms, vm_name),
          calls |-> <<"create">>]

\* `halts`: the guest has stopped by the time domain.shutdown() returns;
\* shutdown() only asks the guest to stop, destroy() stops it at once
_stop_vm(doms, vm_name, force, fault, halts) ==
    LET call == IF force THEN <<"destroy">> ELSE <<"shutdown">> IN
    IF fault = "stop.open"
    THEN [success |-> FALSE, message |-> MsgLibvirt, doms |-> doms,
          calls |-> <<>>]
    ELSE IF vm_name \notin DOMAIN doms \/ fault = "stop.lookup"
    THEN [success |-> FALSE, message |-> MsgNotFound, doms |-> doms,
          calls |-> <<>>]
    ELSE IF ~doms[vm_name].active
    THEN [success |-> TRUE, message |-> MsgOK, doms |-> doms, calls |-> <<>>]
    ELSE IF fault = "stop.shutdown"
    THEN [success |-> FALSE, message |-> MsgStopFailed, doms |-> doms,
          calls |-> call]
    ELSE [success |-> TRUE, message |-> MsgOK,
          doms |-> IF force \/ halts THEN PowerOff(doms, vm_name) ELSE doms,
          calls |-> call]

_is_vm_running(doms, vm_name, fault) ==
    IF fault = "running.open"
    THEN [is_running |-> FALSE, error_msg |-> MsgLibvirt]
    ELSE IF vm_name \notin DOMAIN doms \/ fault = "running.lookup"
    THEN [is_running |-> FALSE, error_msg |-> MsgNotFound]
    ELSE [is_running |-> doms[vm_name].active, error_msg |-> ""]

StartFaults == {"start.open", "start.lookup", "start.create"}
StopFaults == {"stop.open", "stop.lookup", "stop.shutdown"}

-----------------------------------------------------------------------------
(* rename_vm *)

MsgExists == "VM with name already exists"
MsgStopForRename == "Failed to stop VM for renaming"
MsgRenameFailed == "Failed to rename VM"
MsgRestartFailed == "VM renamed successfully but failed to restart"

RenameFaults ==
    {"none", "open", "lookup", "running.open", "running.lookup", "lookup_new",
     "XMLDesc", "undefine", "defineXML"} \cup StopFaults \cup StartFaults

\* a restart whose failure is not told to the caller
RestartUnreported(doms, new_name, was_running, fault) ==
    IF was_running
    THEN [result |-> MsgOK, doms |-> _start_vm(doms, new_name, fault).doms]
    ELSE [result |-> MsgOK, doms |-> doms]

\* lines 999-1005: the renamed VM is started again if it was running
RestartRenamed(doms, new_name, was_running, fault) ==
    IF was_running
    THEN LET s == _start_vm(doms, new_name, fault) IN
         IF ~s.success
         THEN [result |-> MsgRestartFailed, doms |-> s.doms]
         ELSE [result |-> MsgOK, doms |-> s.doms]
    ELSE [result |-> MsgOK, doms |-> doms]

\* the steps of rename_vm after the new name was found free
RenameDefine(doms, old_name, new_name, was_running, fault) ==
    IF old_name \notin DOMAIN doms \/ fault = "XMLDesc"
    THEN [result |-> MsgRenameFailed, doms |-> doms]
    ELSE
    LET updated_xml == [doms[old_name].xml EXCEPT !.name = new_name]
        u == undefine(doms, old_name)
    IN  IF fault = "undefine" \/ ~u.ok
        THEN [result |-> MsgRenameFailed, doms |-> doms]
        ELSE
        LET d == defineXML(u.doms, updated_xml) IN
        IF fault = "defineXML" \/ ~d.ok
        THEN [result |-> MsgRenameFailed, doms |-> u.doms]
        ELSE RestartRenamed(d.doms, new_name, was_running, fault)

\* the name-collision check of rename_vm: any libvirtError of the lookup is
\* read as "the new name is free"
RenameCheckNew(doms, old_name, new_name, was_running, fault) ==
    IF new_name \in DOMAIN doms /\ fault # "lookup_new"
    THEN [result |-> MsgExists, doms |-> doms]
    ELSE RenameDefine(doms, old_name, new_name, was_running, fault)

rename_vm(doms, old_name, new_name, fault, halts) ==
    IF fault = "open"
    THEN [result |-> MsgLibvirt, doms |-> doms, was_running |-> FALSE]
    ELSE IF old_name \notin DOMAIN doms \/ fault = "lookup"
    THEN [result |-> MsgNotFound, doms |-> doms, was_running |-> FALSE]
    ELSE
    LET r == _is_vm_running(doms, old_name, fault) IN
    IF r.error_msg # ""
    THEN [result |-> r.error_msg, doms |-> doms, was_running |-> FALSE]
    ELSE
    LET was_running == r.is_running
        s == IF was_running
             THEN _stop_vm(doms, old_name, FALSE, fault, halts)
             ELSE [success |-> TRUE, message |-> MsgOK, doms |-> doms,
                   calls |-> <<>>]
    IN  IF ~s.success
        THEN [result |-> MsgStopForRename, doms |-> s.doms,
              was_running |-> was_running]
        ELSE LET c == RenameCheckNew(s.doms, old_name, new_name,
                                     was_running, fault)
             IN  [result |-> c.result, doms |-> c.doms,
                  was_running |-> was_running]

-----------------------------------------------------------------------------
(* create_vm, start_vm, shutdown_vm, destroy_vm *)

MsgResolution == "Image resolution failed"
MsgUnhandled == "unhandled libvirtError"
MsgDestroyFailed == "Failed to destroy VM"

\* a descriptor with the memory and the vCPU count taken for each other
RenderSwapped(name, memory, cores, disk_path, mac_address, cdrom_path) ==
    [name |-> name, uuid |-> 0, memory |-> cores, cores |-> memory,
     disk_path |-> disk_path, mac_address |-> mac_address,
     cdrom_path |-> cdrom_path]

\* the descriptor holds what the template is given; the hypervisor adds the UUID
_render_domain_xml(name, memory, cores, disk_path, mac_address, cdrom_path) ==
    [name |-> name, uuid |-> 0, memory |-> memory, cores |-> cores,
     disk_path |-> disk_path, mac_address |-> mac_address,
     cdrom_path |-> cdrom_path]

FixedMac == "52:54:00:0c:94:61"

CreateFaults == {"none", "open", "defineXML", "setAutostart"} \cup StartFaults

\* create_vm once the image is resolved.  `conns`: the connections this call
\* opened and has not closed when it returns (conn.close() is at line 1207
\* only; the connection of _start_vm is closed on each of its returns)
CreateDefine(doms, name, cores, memory, resolved_path, fault) ==
    IF fault = "open"
    THEN [result |-> MsgLibvirt, doms |-> doms, conns |-> 0]
    ELSE
    LET domain_xml == _render_domain_xml(name, memory, cores, resolved_path,
                                         FixedMac, NoPath)
        d == defineXML(doms, domain_xml)
    IN  IF fault = "defineXML" \/ ~d.ok
        THEN [result |-> MsgLibvirt, doms |-> doms, conns |-> 1]
        ELSE IF fault = "setAutostart"
        THEN [result |-> MsgUnhandled, doms |-> d.doms, conns |-> 1]
        ELSE LET s == _start_vm(d.doms, name, fault)
             IN  [result |-> s.message, doms |-> s.doms, conns |-> 0]

create_vm(doms, cache, lfs, rfs, uri, name, cores, memory, path, fault, dl, ssh) ==
    LET r == _resolve_image_path(path, cache, lfs, rfs, uri, dl, ssh) IN
    IF r.error # ""
    THEN [result |-> MsgResolution, doms |-> doms, cache |-> r.cache,
          resolved_path |-> r.path, downloads |-> r.downloads, conns |-> 0]
    ELSE LET c == CreateDefine(doms, name, cores, memory, r.path, fault)
         IN  [result |-> c.result, doms |-> c.doms, cache |-> r.cache,
              resolved_path |-> r.path, downloads |-> r.downloads,
              conns |-> c.conns]

start_vm(doms, vm_name, fault) == _start_vm(doms, vm_name, fault)

shutdown_vm(doms, vm_name, fault, halts) ==
    _stop_vm(doms, vm_name, FALSE, fault, halts)

DestroyFaults == {"none", "open", "lookup", "undefine"} \cup StopFaults

\* a destroy that goes on to undefine whatever the forced stop returned
DestroyRegardless(doms, vm_name, fault) ==
    IF fault = "open"
    THEN [result |-> MsgLibvirt, doms |-> doms, calls |-> <<>>,
          stop_failed |-> FALSE]
    ELSE IF vm_name \notin DOMAIN doms \/ fault = "lookup"
    THEN [result |-> MsgDestroyFailed, doms |-> doms, calls |-> <<>>,
          stop_failed |-> FALSE]
    ELSE LET s == _stop_vm(doms, vm_name, TRUE, fault, TRUE)
             u == undefine(s.doms, vm_name)
         IN  IF fault = "undefine" \/ ~u.ok
             THEN [result |-> MsgDestroyFailed, doms |-> s.doms,
                   calls |-> Append(s.calls, "undefine"),
                   stop_failed |-> ~s.success]
             ELSE [result |-> MsgOK, doms |-> u.doms,
                   calls |-> Append(s.calls, "undefine"),
                   stop_failed |-> ~s.success]

\* `stop_failed`: the forced stop returned a failure
destroy_vm(doms, vm_name, fault) ==
    IF fault = "open"
    THEN [result |-> MsgLibvirt, doms |-> doms, calls |-> <<>>,
          stop_failed |-> FALSE]
    ELSE IF vm_name \notin DOMAIN doms \/ fault = "lookup"
    THEN [result |-> MsgDestroyFailed, doms |-> doms, calls |-> <<>>,
          stop_failed |-> FALSE]
    ELSE LET s == _stop_vm(doms, vm_name, TRUE, fault, TRUE) IN
         IF ~s.success
         THEN [result |-> s.message, doms |-> s.doms, calls |-> s.calls,
               stop_failed |-> TRUE]
         ELSE LET u == undefine(s.doms, vm_name) IN
              IF fault = "undefine" \/ ~u.ok
              THEN [result |-> MsgDestroyFailed, doms |-> s.doms,
                    calls |-> Append(s.calls, "undefine"),
                    stop_failed |-> FALSE]
              ELSE [result |-> MsgOK, doms |-> u.doms,
                    calls |-> Append(s.calls, "undefine"),
                    stop_failed |-> FALSE]

-----------------------------------------------------------------------------
(* Inputs of the requests *)

Sizes == {[cores |-> 2, memory |-> 2048], [cores |-> 1, memory |-> 512]}

CreateRefs == {UrlBase, PathNoble, PathJammy}

\* the download outcomes that can be told apart for this reference
DownloadsOf(ref, cache) ==
    IF _is_url(ref) /\ cache[_get_cache_path(ref)] = "absent"
    THEN DownloadOutcomes ELSE {"ok"}

\* the SSH outcomes that can be told apart for this reference
SshOf(ref, uri) ==
    IF ~_is_url(ref) /\ IsSsh(uri) THEN SshOutcomes ELSE {"ok"}

-----------------------------------------------------------------------------
(* The lifecycle tools as actions *)

CreateVm(refs) ==
    /\ last = Idle
    /\ \E name \in VmNames, size \in Sizes, path \in refs,
          fault \in CreateFaults :
       \E dl \in DownloadsOf(path, cacheFiles),
          ssh \in SshOf(path, LIBVIRT_DEFAULT_URI) :
          LET c == create_vm(domains, cacheFiles, localFs, remoteFs,
                             LIBVIRT_DEFAULT_URI, name, size.cores,
                             size.memory, path, fault, dl, ssh)
          IN  /\ domains' = c.doms
              /\ cacheFiles' = c.cache
              /\ last' = [op |-> "create_vm", name |-> name,
                          cores |-> size.cores, memory |-> size.memory,
                          path |-> path, result |-> c.result,
                          resolved_path |-> c.resolved_path,
                          downloads |-> c.downloads,
                          was_defined |-> name \in DOMAIN domains,
                          faulted |-> fault # "none", fault |-> fault,
                          conns |-> c.conns]
    /\ UNCHANGED <<cfgVars, diskFiles, localFs, remoteFs, isoFiles, netVars,
                   prev>>

StartVm ==
    /\ last = Idle
    /\ \E vm_name \in VmNames, fault \in {"none"} \cup StartFaults :
          LET s == start_vm(domains, vm_name, fault)
          IN  /\ domains' = s.doms
              /\ last' = [op |-> "start_vm", vm_name |-> vm_name,
                          result |-> s.message, calls |-> s.calls,
                          was_active |-> /\ vm_name \in DOMAIN domains
                                         /\ domains[vm_name].active,
                          was_stopped |-> /\ vm_name \in DOMAIN domains
                                          /\ ~domains[vm_name].active,
                          unchanged |-> s.doms = domains, fault |-> fault]
    /\ UNCHANGED <<cfgVars, fsVars, netVars, prev>>

ShutdownVm ==
    /\ last = Idle
    /\ \E vm_name \in VmNames, fault \in {"none"} \cup StopFaults,
          halts \in BOOLEAN :
          LET s == shutdown_vm(domains, vm_name, fault, halts)
          IN  /\ domains' = s.doms
              /\ last' = [op |-> "shutdown_vm", vm_name |-> vm_name,
                          result |-> s.message, calls |-> s.calls,
                          was_active |-> /\ vm_name \in DOMAIN domains
                                         /\ domains[vm_name].active,
                          was_stopped |-> /\ vm_name \in DOMAIN domains
                                          /\ ~domains[vm_name].active,
                          unchanged |-> s.doms = domains, fault |-> fault]
    /\ UNCHANGED <<cfgVars, fsVars, netVars, prev>>

DestroyVm ==
    /\ last = Idle
    /\ \E vm_name \in VmNames, fault \in DestroyFaults :
          LET d == destroy_vm(domains, vm_name, fault)
          IN  /\ domains' = d.doms
              /\ last' = [op |-> "destroy_vm", vm_name |-> vm_name,
                          result |-> d.result, calls |-> d.calls,
                          stop_failed |-> d.stop_failed,
                          was_transient |-> /\ vm_name \in DOMAIN domains
                                            /\ ~domains[vm_name].persistent,
                          was_active |-> /\ vm_name \in DOMAIN domains
                                         /\ domains[vm_name].active,
                          was_stopped |-> /\ vm_name \in DOMAIN domains
                                          /\ ~domains[vm_name].active,
                          unchanged |-> d.doms = domains, fault |-> fault]
    /\ UNCHANGED <<cfgVars, fsVars, netVars, prev>>

RenameVm ==
    /\ last = Idle
    /\ \E old_name \in VmNames, new_name \in VmNames,
          fault \in RenameFaults, halts \in BOOLEAN :
          LET r == rename_vm(domains, old_name, new_name, fault, halts)
          IN  /\ domains' = r.doms
              /\ last' = [op |-> "rename_vm", old_name |-> old_name,
                          new_name |-> new_name, result |-> r.result,
                          was_running |-> r.was_running, pre |-> domains]
    /\ UNCHANGED <<cfgVars, fsVars, netVars, prev>>

\* the guest of a running VM powers off, on its own or because it was asked to
GuestPowerOff ==
    /\ last = Idle
    /\ \E vm_name \in DOMAIN domains :
          /\ domains[vm_name].active
          /\ domains' = PowerOff(domains, vm_name)
    /\ UNCHANGED <<cfgVars, fsVars, netVars, last, prev>>

\* the result goes back to the caller; the server waits for the next request
\* the answer goes out when the handler has returned
Respond ==
    /\ last # Idle
    /\ "returned" \in DOMAIN last => last.returned
    /\ last' = Idle
    /\ prev' = IF last.op = "_resolve_image_path" THEN last ELSE Idle
    /\ UNCHANGED <<cfgVars, hvVars, fsVars, netVars>>

-----------------------------------------------------------------------------
(* Spec: the lifecycle tools against one hypervisor *)

NoIso == [h \in {"local", "remote"}, n \in VmNames |-> FALSE]
NoDisk == [h \in {"local", "remote"}, n \in VmNames |-> "absent"]
NoAgent == [n \in VmNames |-> [kind |-> "error", ifaces |-> <<>>]]

\* a fresh host: no domain, an empty cache, the image files as given
InitHost(lfs, rfs) ==
    /\ LIBVIRT_DEFAULT_URI \in Uris
    /\ tools = AllTools
    /\ domains = <<>>
    /\ cacheFiles = [p \in CachePaths |-> "absent"]
    /\ localFs = lfs
    /\ remoteFs = rfs
    /\ isoFiles = NoIso
    /\ diskFiles = NoDisk
    /\ agent = NoAgent
    /\ leases = <<>>
    /\ arpTable = [kind |-> "missing", lines |-> <<>>]
    /\ last = Idle
    /\ prev = Idle

Init == InitHost({PathNoble}, {PathNoble})

Next ==
    \/ CreateVm({PathNoble})
    \/ StartVm
    \/ ShutdownVm
    \/ DestroyVm
    \/ RenameVm
    \/ GuestPowerOff
    \/ Respond

Spec == Init /\ [][Next]_vars

-----------------------------------------------------------------------------
(* SpecCreate: create_vm with every kind of image reference *)

InitCreate == InitHost({PathNoble}, {PathJammy})

NextCreate ==
    \/ CreateVm(CreateRefs)
    \/ DestroyVm
    \/ Respond

SpecCreate == InitCreate /\ [][NextCreate]_vars

-----------------------------------------------------------------------------
(* Properties of rename_vm and create_vm *)

\* the domains that carry the configuration (the UUID) domain `name` had in `pre`
SameVm(doms, pre, name) ==
    {m \in DOMAIN doms : doms[m].xml.uuid = pre[name].xml.uuid}

\* C1: a VM that was running before rename_vm is running when the call
\* returns, under the new name when the call returned OK, unless the call
\* reports that the rename succeeded and the restart failed; a VM that was
\* stopped before the call is stopped afterwards.
C1_RenameKeepsRunState ==
    (last.op = "rename_vm" /\ last.old_name \in DOMAIN last.pre) =>
        LET was_active == last.pre[last.old_name].active
            now == SameVm(domains, last.pre, last.old_name)
        IN  /\ (was_active /\ last.result # MsgRestartFailed) =>
                  /\ \E m \in now : domains[m].active
                  /\ last.result = MsgOK =>
                        /\ last.new_name \in now
                        /\ domains[last.new_name].active
            /\ ~was_active => \A m \in now : ~domains[m].active

\* C2: a rename_vm that reports a name collision (the new name is already
\* defined) leaves both domains untouched: the old and the new domain have the
\* definition and the running state they had before the call.
C2_CollisionLeavesBothUntouched ==
    (/\ last.op = "rename_vm"
     /\ last.result = MsgExists
     /\ last.old_name # last.new_name) =>
        /\ last.old_name \in DOMAIN domains
        /\ last.new_name \in DOMAIN domains
        /\ domains[last.old_name] = last.pre[last.old_name]
        /\ domains[last.new_name] = last.pre[last.new_name]

\* C10: create_vm with a resolved image, no failing hypervisor call and a
\* name not yet defined returns OK; and whenever it returns OK the domain is
\* defined under that name with that vCPU count and memory, its disk is the
\* resolved path (the cache path of a URL, downloaded in full when this call
\* downloaded it), and it is running.
C10_CreateVmDefinesAndStarts ==
    last.op = "create_vm" =>
        /\ (/\ last.resolved_path # NoPath
            /\ ~last.faulted
            /\ ~last.was_defined) => last.result = MsgOK
        /\ last.result = MsgOK =>
              /\ last.name \in DOMAIN domains
              /\ domains[last.name].persistent
              /\ domains[last.name].active
              /\ domains[last.name].xml.name = last.name
              /\ domains[last.name].xml.cores = last.cores
              /\ domains[last.name].xml.memory = last.memory
              /\ domains[last.name].xml.disk_path = last.resolved_path
              /\ last.resolved_path # NoPath
              /\ _is_url(last.path) =>
                    /\ last.resolved_path = _get_cache_path(last.path)
                    /\ last.downloads = 1 =>
                          cacheFiles[last.resolved_path] = "complete"
              /\ ~_is_url(last.path) =>
                    last.resolved_path = PlainPath(last.path)

\* the scenario of C10: webA, 2 vCPUs, 2048 MiB, an uncached URL
C10_Witness ==
    /\ last.op = "create_vm"
    /\ last.name = "webA"
    /\ last.cores = 2
    /\ last.memory = 2048
    /\ last.path = UrlBase
    /\ last.downloads = 1
    /\ last.result = MsgOK

-----------------------------------------------------------------------------
(* SpecResolve: the image resolver on its own *)

ResolveImage ==
    /\ last = Idle
    /\ \E path_or_url \in Refs :
       \E dl \in DownloadsOf(path_or_url, cacheFiles),
          ssh \in SshOf(path_or_url, LIBVIRT_DEFAULT_URI) :
          LET r == _resolve_image_path(path_or_url, cacheFiles, localFs,
                                       remoteFs, LIBVIRT_DEFAULT_URI, dl, ssh)
          IN  /\ cacheFiles' = r.cache
              /\ last' = [op |-> "_resolve_image_path",
                          path_or_url |-> path_or_url, path |-> r.path,
                          error |-> r.error, downloads |-> r.downloads,
                          ssh |-> ssh]
    /\ UNCHANGED <<cfgVars, diskFiles, hvVars, localFs, remoteFs, isoFiles,
                   netVars, prev>>

InitResolve ==
    \E lfs \in SUBSET {PathNoble, PathJammy}, rfs \in SUBSET {PathNoble, PathJammy} :
        InitHost(lfs, rfs)

NextResolve ==
    \/ ResolveImage
    \/ Respond

SpecResolve == InitResolve /\ [][NextResolve]_vars

\* C4: a resolution that returns the cache path of a URL returns a file that
\* a download wrote in full: a file left by a download that failed part-way is
\* never returned as the resolved image.
C4_PartialFileNeverResolved ==
    (/\ last.op = "_resolve_image_path"
     /\ _is_url(last.path_or_url)
     /\ last.error = "") =>
        /\ last.path = _get_cache_path(last.path_or_url)
        /\ cacheFiles[last.path] = "complete"

\* C27: the path a resolution returns is a file on the hypervisor host: for a
\* local target a file of the local filesystem (the cache file of a URL
\* included), for an SSH target a file of the remote host, for URLs as well
\* as for paths
C27_ResolvedPathOnHypervisorHost ==
    (last.op = "_resolve_image_path" /\ last.error = "") =>
        IF IsSsh(LIBVIRT_DEFAULT_URI)
        THEN \E r \in remoteFs : PlainPath(r) = last.path
        ELSE \/ \E r \in localFs : PlainPath(r) = last.path
             \/ /\ last.path \in DOMAIN cacheFiles
                /\ cacheFiles[last.path] # "absent"

\* the two requests answered last were resolutions of the same URL
TwiceInSuccession ==
    /\ prev.op = "_resolve_image_path"
    /\ last.op = "_resolve_image_path"
    /\ prev.path_or_url = last.path_or_url
    /\ _is_url(last.path_or_url)

\* C5: when a URL is resolved twice in succession and the first resolution
\* returned a path, the second returns the identical path and downloads
\* nothing, so that the two together perform at most one download; and
\* whenever both return a path it is the same path.
C5_SecondResolutionUsesCache ==
    TwiceInSuccession =>
        /\ prev.error = "" =>
              /\ last.error = ""
              /\ last.path = prev.path
              /\ last.downloads = 0
              /\ prev.downloads + last.downloads <= 1
        /\ (prev.error = "" /\ last.error = "") => last.path = prev.path

\* the first resolution downloaded the URL, the second found it cached
C5_Witness ==
    /\ TwiceInSuccession
    /\ prev.error = ""
    /\ prev.downloads = 1
    /\ last.error = ""
    /\ last.downloads = 0

\* the filesystem a plain path is looked up on
ApplicableFs == IF IsSsh(LIBVIRT_DEFAULT_URI) THEN remoteFs ELSE localFs

\* C6: for a reference that is not a URL, _resolve_image_path returns a path
\* only when the existence check on the applicable filesystem (the remote
\* host for an SSH target, the local filesystem otherwise) succeeded; when
\* the path does not exist there it returns an error and no path.
C6_MissingPathNeverResolved ==
    (last.op = "_resolve_image_path" /\ ~_is_url(last.path_or_url)) =>
        /\ last.path # NoPath =>
              /\ last.error = ""
              /\ last.path = PlainPath(last.path_or_url)
              /\ last.path_or_url \in ApplicableFs
              /\ IsSsh(LIBVIRT_DEFAULT_URI) => last.ssh = "ok"
        /\ last.path_or_url \notin ApplicableFs =>
              /\ last.path = NoPath
              /\ last.error # ""
        /\ (last.path = NoPath) = (last.error # "")
        /\ last.downloads = 0

\* an SSH target, a path that exists locally but not on the remote host
C6_Witness ==
    /\ last.op = "_resolve_image_path"
    /\ ~_is_url(last.path_or_url)
    /\ IsSsh(LIBVIRT_DEFAULT_URI)
    /\ last.ssh = "ok"
    /\ last.path_or_url \in localFs \ remoteFs
    /\ last.path = NoPath
    /\ last.error = "Remote image path does not exist"

-----------------------------------------------------------------------------
(* The cloud-init create variants: the ISO is packaged at                   *)
(* <images-dir>/<name>-cloudinit.iso, on this host by generate_cloudinit_iso *)
(* and on the hypervisor host by create_remote_cloudinit_iso.               *)

MsgIsoFailed == "cloud-init ISO creation failed"
MsgInstallFailed == "VM installation failed"

iso_path(name) == [dir |-> ImagesDir, file |-> <<name, "-cloudinit.iso">>]

\* how a packaging command ends: a zero exit, a non-zero exit whose stderr is
\* the warning about the tool's own rc file, or another non-zero exit; and
\* whether it wrote the ISO file
PkgOutcomes ==
    {[exit |-> "zero", wrote |-> TRUE],
     [exit |-> "rcwarning", wrote |-> TRUE],
     [exit |-> "rcwarning", wrote |-> FALSE],
     [exit |-> "other", wrote |-> TRUE],
     [exit |-> "other", wrote |-> FALSE]}

MsgNoTool == "Neither cloud-localds nor genisoimage/mkisofs found"
MsgCreateIsoFailed == "Failed to create ISO"
MsgLocaldsFailed == "cloud-localds failed"
MsgGenerateFailed == "Failed to generate cloud-init ISO"

\* a run that takes the rc-file warning for a success without looking for
\* the ISO file
RunIsoToolTrustsWarning(tool, exists, pkg) ==
    [success |-> pkg.exit \in {"zero", "rcwarning"},
     exists |-> exists \/ pkg.wrote, ran |-> <<tool>>,
     error |-> IF pkg.exit \in {"zero", "rcwarning"} THEN ""
               ELSE MsgCreateIsoFailed]

\* lines 1134-1143 (genisoimage) and 1145-1154 (mkisofs): one run of the
\* tool; `exists`: the ISO file is there before the run
RunIsoTool(tool, exists, pkg) ==
    LET after == exists \/ pkg.wrote
        ok == pkg.exit = "zero" \/ (pkg.exit = "rcwarning" /\ after)
    IN  [success |-> ok, exists |-> after, ran |-> <<tool>>,
         error |-> IF ok THEN "" ELSE MsgCreateIsoFailed]

\* with no tool at all, the failure of a tool run is reported
CreateIsoNoToolUnnamed(exists, tls, pkg) ==
    IF "genisoimage" \in tls THEN RunIsoTool("genisoimage", exists, pkg)
    ELSE IF "mkisofs" \in tls THEN RunIsoTool("mkisofs", exists, pkg)
    ELSE [success |-> FALSE, exists |-> exists, ran |-> <<>>,
          error |-> MsgCreateIsoFailed]

\* `ran`: the backends that were invoked
_create_iso_with_genisoimage(exists, tls, pkg) ==
    IF "genisoimage" \in tls THEN RunIsoTool("genisoimage", exists, pkg)
    ELSE IF "mkisofs" \in tls THEN RunIsoTool("mkisofs", exists, pkg)
    ELSE [success |-> FALSE, exists |-> exists, ran |-> <<>>,
          error |-> MsgNoTool]

\* lines 1109-1117: cloud-localds when it is there, else the fallback
PackageIso(exists, tls, pkg) ==
    IF "cloud_localds" \in tls
    THEN [success |-> pkg.exit = "zero", exists |-> exists \/ pkg.wrote,
          ran |-> <<"cloud_localds">>,
          error |-> IF pkg.exit = "zero" THEN "" ELSE MsgLocaldsFailed]
    ELSE _create_iso_with_genisoimage(exists, tls, pkg)

\* writing the two temporary files (meta-data, then user-data): both
\* written, or an exception while the first or the second is made
TmpOutcomes == {"ok", "meta_fails", "user_fails"}

\* a packaging that passes over cloud-localds
GenerateWithoutLocalds(exists, tls, pkg, tmp) ==
    LET r == _create_iso_with_genisoimage(exists, tls, pkg)
    IN  [success |-> r.success /\ tmp = "ok",
         exists |-> IF tmp = "ok" THEN r.exists ELSE exists,
         ran |-> IF tmp = "ok" THEN r.ran ELSE <<>>,
         error |-> IF tmp = "ok" THEN r.error ELSE MsgGenerateFailed,
         tmp_left |-> IF tmp = "user_fails" THEN {"meta-data"} ELSE {}]

\* a backend that neither exits nor is killed.  cloud_localds, genisoimage
\* and mkisofs are called without `_timeout` (lines 1111, 1135, 1146), so
\* the call waits for the process without end
Hang == [exit |-> "hang", wrote |-> FALSE]

\* `tmp_left`: the temporary files of this call that are still there when it
\* returns.  The files are unlinked in the `finally` of the inner try, which
\* is entered once both are written; an exception before that goes to the
\* outer handler, which unlinks nothing
generate_cloudinit_iso(exists, tls, pkg, tmp) ==
    IF tmp = "meta_fails"
    THEN [success |-> FALSE, exists |-> exists, ran |-> <<>>,
          error |-> MsgGenerateFailed, tmp_left |-> {}]
    ELSE IF tmp = "user_fails"
    THEN [success |-> FALSE, exists |-> exists, ran |-> <<>>,
          error |-> MsgGenerateFailed, tmp_left |-> {"meta-data"}]
    ELSE LET r == PackageIso(exists, tls, pkg)
         IN  IF pkg = Hang /\ r.ran # <<>>
             THEN [success |-> FALSE, exists |-> exists, ran |-> r.ran,
                   error |-> "", tmp_left |-> {"meta-data", "user-data"}]
             ELSE [success |-> r.success, exists |-> r.exists, ran |-> r.ran,
                   error |-> r.error, tmp_left |-> {}]

\* whether a call of generate_cloudinit_iso returns
Returns(tls, pkg, tmp) ==
    ~(tmp = "ok" /\ tls \cap {"cloud_localds", "genisoimage", "mkisofs"} # {}
                /\ pkg = Hang)

\* the packaging outcomes that can be told apart with these tools: no tool,
\* nothing runs; cloud-localds, every non-zero exit is a failure
PkgOf(tls) ==
    IF tls \cap {"cloud_localds", "genisoimage", "mkisofs"} = {}
    THEN {[exit |-> "zero", wrote |-> TRUE]}
    ELSE IF "cloud_localds" \in tls
    THEN {o \in PkgOutcomes : o.exit # "rcwarning"}
    ELSE PkgOutcomes

\* how the ssh_cmd steps of a remote packaging end.  `writes`: both input
\* files were written ("ok") or the command writing this one failed;
\* `localds`, `mkisofs`: the command did its work, is not installed on the
\* host, exited with an error, or ran into the timeout
RemoteRun(writes, localds, mkisofs) ==
    [writes |-> writes, localds |-> localds, mkisofs |-> mkisofs]

RemotePkgBasic ==
    {RemoteRun("ok", "ok", "ok"), RemoteRun("ok", "missing", "ok"),
     RemoteRun("ok", "missing", "missing")}

RemotePkgOutcomes ==
    RemotePkgBasic
    \cup {RemoteRun(w, "ok", "ok") : w \in {"user-data", "meta-data"}}
    \cup {RemoteRun("ok", l, m) : l \in {"missing", "error", "timeout"},
                                  m \in {"ok", "missing", "error"}}

MsgNotSsh == "Remote ISO creation only supported for SSH connections"
MsgRemoteUserData == "Failed to create user-data on remote host"
MsgRemoteMetaData == "Failed to create meta-data on remote host"
MsgRemoteIso == "Failed to create ISO on remote host"

\* LibvirtWrapper.create_remote_cloudinit_iso: every step is an ssh_cmd, and
\* an ssh_cmd tells only success from failure.  `ran`: the backends invoked
\* on the host; `tmp_left`: the files under /tmp of the host that are still
\* there when the call returns
create_remote_cloudinit_iso(exists, uri, ssh, rpkg) ==
    IF ~IsSsh(uri)
    THEN [success |-> FALSE, exists |-> exists, ran |-> <<>>,
          error |-> MsgNotSsh, tmp_left |-> {}]
    ELSE IF ssh # "ok" \/ rpkg.writes = "user-data"
    THEN [success |-> FALSE, exists |-> exists, ran |-> <<>>,
          error |-> MsgRemoteUserData, tmp_left |-> {}]
    ELSE IF rpkg.writes = "meta-data"
    THEN [success |-> FALSE, exists |-> exists, ran |-> <<>>,
          error |-> MsgRemoteMetaData, tmp_left |-> {"user-data"}]
    ELSE IF rpkg.localds = "ok"
    THEN [success |-> TRUE, exists |-> TRUE, ran |-> <<"cloud-localds">>,
          error |-> "", tmp_left |-> {}]
    ELSE [success |-> rpkg.mkisofs = "ok",
          exists |-> exists \/ rpkg.mkisofs = "ok",
          ran |-> <<"cloud-localds", "mkisofs">>,
          error |-> IF rpkg.mkisofs = "ok" THEN "" ELSE MsgRemoteIso,
          tmp_left |-> {}]

\* the ISO is left where it is
KeepIso(isos, host, name) == isos

\* os.remove(iso_path) / ssh_cmd(host, "sudo rm -f <iso_path>")
RemoveIso(isos, host, name) == [isos EXCEPT ![host, name] = FALSE]

\* "52:54:00:" and three random bytes: one value stands for all of them, as
\* no handler modelled here reads the address of a domain it defines
RandomMacs == {"52:54:00:a1:b2:c3"}

VirtInstallOutcomes == {"ok", "fail"}

\* LibvirtWrapper.install: virt-install defines the domain and starts it, or
\* fails and leaves no domain; a name in use makes it fail
install(doms, tls, name, cpucount, memory, diskimg, cloudconfig_img, mac, vi) ==
    LET d == defineXML(doms, [name |-> name, uuid |-> 0, memory |-> memory,
                              cores |-> cpucount, disk_path |-> diskimg,
                              mac_address |-> mac,
                              cdrom_path |-> cloudconfig_img])
    IN  IF "virt_install" \notin tls \/ vi # "ok" \/ ~d.ok
        THEN [success |-> FALSE, doms |-> doms]
        ELSE [success |-> TRUE, doms |-> create(d.doms, name)]

CloudInitFaults == {"none", "open", "defineXML", "setAutostart", "start.create"}

\* the ISO is removed when the define fails
CloudInitDefine(doms, isos, name, cores, memory, resolved_path, mac, fault) ==
    LET domain_xml == _render_domain_xml(name, memory, cores, resolved_path,
                                         mac, iso_path(name))
        d == defineXML(doms, domain_xml)
    IN  IF fault = "defineXML" \/ ~d.ok
        THEN [result |-> MsgLibvirt, doms |-> doms,
              isos |-> RemoveIso(isos, "local", name), defined |-> FALSE]
        ELSE IF fault = "setAutostart"
        THEN [result |-> MsgUnhandled, doms |-> d.doms, isos |-> isos,
              defined |-> TRUE]
        ELSE LET s == _start_vm(d.doms, name, fault)
             IN  [result |-> s.message, doms |-> s.doms, isos |-> isos,
                  defined |-> TRUE]

\* st: the host as the handler finds it; rq: the arguments of the call and
\* the outcomes of its external calls
create_vm_with_cloudinit(st, rq) ==
    LET r == _resolve_image_path(rq.path, st.cache, st.lfs, st.rfs, st.uri,
                                 rq.dl, rq.ssh)
        g == generate_cloudinit_iso(st.isos["local", rq.name], st.tls, rq.pkg,
                                    rq.tmp)
        isos == [st.isos EXCEPT !["local", rq.name] = g.exists]
    IN  IF r.error # ""
        THEN [result |-> MsgResolution, doms |-> st.doms, cache |-> r.cache,
              isos |-> st.isos, packaged |-> FALSE, defined |-> FALSE,
              iso_error |-> "", ran |-> <<>>,
              open_failed |-> FALSE]
        ELSE IF rq.fault = "open"
        THEN [result |-> MsgLibvirt, doms |-> st.doms, cache |-> r.cache,
              isos |-> st.isos, packaged |-> FALSE, defined |-> FALSE,
              iso_error |-> "", ran |-> <<>>,
              open_failed |-> TRUE]
        ELSE IF ~g.success
        THEN [result |-> MsgIsoFailed, doms |-> st.doms, cache |-> r.cache,
              isos |-> isos, packaged |-> FALSE, defined |-> FALSE,
              iso_error |-> g.error, ran |-> g.ran,
              open_failed |-> FALSE]
        ELSE LET c == CloudInitDefine(st.doms, isos, rq.name, rq.cores,
                                      rq.memory, r.path, rq.mac, rq.fault)
             IN  [result |-> c.result, doms |-> c.doms, cache |-> r.cache,
                  isos |-> c.isos, packaged |-> TRUE, defined |-> c.defined,
                  iso_error |-> "", ran |-> g.ran,
              open_failed |-> FALSE]

\* the ISO is removed when virt-install fails.  After the install, with
\* autostart asked for, a connection is opened to set it; whatever goes wrong
\* there is swallowed (`except Exception: pass`) and the call returns OK.
\* `open_failed`: an open of the hypervisor connection failed in this call
InstallOrRemove(doms, isos, host, tls, rq, resolved_path, removable) ==
    LET i == install(doms, tls, rq.name, rq.cores, rq.memory, resolved_path,
                     iso_path(rq.name), rq.mac, rq.vi)
    IN  IF ~i.success
        THEN [result |-> MsgInstallFailed, doms |-> doms,
              isos |-> IF removable THEN RemoveIso(isos, host, rq.name)
                       ELSE isos,
              defined |-> FALSE, open_failed |-> FALSE]
        ELSE [result |-> MsgOK, doms |-> i.doms, isos |-> isos,
              defined |-> TRUE,
              open_failed |-> rq.autostart /\ rq.fault = "open"]

create_vm_with_cloudinit_install(st, rq) ==
    LET r == _resolve_image_path(rq.path, st.cache, st.lfs, st.rfs, st.uri,
                                 rq.dl, rq.ssh)
        g == generate_cloudinit_iso(st.isos["local", rq.name], st.tls, rq.pkg,
                                    rq.tmp)
        isos == [st.isos EXCEPT !["local", rq.name] = g.exists]
    IN  IF r.error # ""
        THEN [result |-> MsgResolution, doms |-> st.doms, cache |-> r.cache,
              isos |-> st.isos, packaged |-> FALSE, defined |-> FALSE,
              iso_error |-> "", ran |-> <<>>,
              open_failed |-> FALSE]
        ELSE IF ~g.success
        THEN [result |-> MsgIsoFailed, doms |-> st.doms, cache |-> r.cache,
              isos |-> isos, packaged |-> FALSE, defined |-> FALSE,
              iso_error |-> g.error, ran |-> g.ran,
              open_failed |-> FALSE]
        ELSE LET c == InstallOrRemove(st.doms, isos, "local", st.tls, rq,
                                      r.path, TRUE)
             IN  [result |-> c.result, doms |-> c.doms, cache |-> r.cache,
                  isos |-> c.isos, packaged |-> TRUE, defined |-> c.defined,
                  iso_error |-> "", ran |-> g.ran,
              open_failed |-> c.open_failed]

\* the removal is an ssh_cmd whose failure is suppressed
create_vm_with_remote_cloudinit(st, rq) ==
    LET r == _resolve_image_path(rq.path, st.cache, st.lfs, st.rfs, st.uri,
                                 rq.dl, rq.ssh)
        g == create_remote_cloudinit_iso(st.isos["remote", rq.name], st.uri,
                                         rq.ssh, rq.rpkg)
        isos == [st.isos EXCEPT !["remote", rq.name] = g.exists]
    IN  IF r.error # ""
        THEN [result |-> MsgResolution, doms |-> st.doms, cache |-> r.cache,
              isos |-> st.isos, packaged |-> FALSE, defined |-> FALSE,
              iso_error |-> "", ran |-> <<>>,
              open_failed |-> FALSE]
        ELSE IF ~g.success
        THEN [result |-> MsgIsoFailed, doms |-> st.doms, cache |-> r.cache,
              isos |-> isos, packaged |-> FALSE, defined |-> FALSE,
              iso_error |-> g.error, ran |-> g.ran,
              open_failed |-> FALSE]
        ELSE LET c == InstallOrRemove(st.doms, isos, "remote", st.tls, rq,
                                      r.path,
                                      IsSsh(st.uri) /\ rq.ssh = "ok")
             IN  [result |-> c.result, doms |-> c.doms, cache |-> r.cache,
                  isos |-> c.isos, packaged |-> TRUE, defined |-> c.defined,
                  iso_error |-> "", ran |-> g.ran,
              open_failed |-> c.open_failed]

-----------------------------------------------------------------------------
(* SpecCloudInit: the cloud-init create variants, with destroy_vm *)

CloudInitRefs == {PathNoble, PathJammy}
CloudInitSize == [cores |-> 2, memory |-> 2048]

\* the local commands a host may have
ToolSets ==
    {AllTools, {"genisoimage", "mkisofs"}, {"mkisofs", "virt_install"}, {}}

Host == [doms |-> domains, cache |-> cacheFiles, isos |-> isoFiles,
         lfs |-> localFs, rfs |-> remoteFs, uri |-> LIBVIRT_DEFAULT_URI,
         tls |-> tools]

Request(name, path, mac, fault, dl, ssh, pkg, vi, rpkg, autostart) ==
    [name |-> name, cores |-> CloudInitSize.cores,
     memory |-> CloudInitSize.memory, path |-> path, mac |-> mac,
     fault |-> fault, dl |-> dl, ssh |-> ssh, pkg |-> pkg, vi |-> vi,
     rpkg |-> rpkg, tmp |-> "ok", autostart |-> autostart]

\* what the request leaves behind, and what is kept of it for the caller
Answer(op, host, name, c) ==
    /\ domains' = c.doms
    /\ cacheFiles' = c.cache
    /\ isoFiles' = c.isos
    /\ last' = [op |-> op, name |-> name, result |-> c.result,
                packaged |-> c.packaged, defined |-> c.defined, host |-> host,
                iso_error |-> c.iso_error, ran |-> c.ran,
                untouched |-> c.doms = domains,
                iso_before |-> isoFiles[host, name],
                open_failed |-> c.open_failed]
    /\ UNCHANGED <<cfgVars, diskFiles, localFs, remoteFs, netVars, prev>>

CreateVmWithCloudinit ==
    /\ last = Idle
    /\ \E name \in VmNames, path \in CloudInitRefs, mac \in RandomMacs,
          fault \in CloudInitFaults, pkg \in PkgOf(tools) :
       \E ssh \in SshOf(path, LIBVIRT_DEFAULT_URI) :
          Answer("create_vm_with_cloudinit", "local", name,
                 create_vm_with_cloudinit(
                     Host, Request(name, path, mac, fault, "ok", ssh, pkg,
                                   "ok", RemoteRun("ok", "ok", "ok"),
                                   FALSE)))

CreateVmWithCloudinitInstall ==
    /\ last = Idle
    /\ \E name \in VmNames, path \in CloudInitRefs, mac \in RandomMacs,
          pkg \in PkgOf(tools), vi \in VirtInstallOutcomes,
          autostart \in BOOLEAN :
       \E ssh \in SshOf(path, LIBVIRT_DEFAULT_URI),
          fault \in IF autostart THEN {"none", "open"} ELSE {"none"} :
          Answer("create_vm_with_cloudinit_install", "local", name,
                 create_vm_with_cloudinit_install(
                     Host, Request(name, path, mac, fault, "ok", ssh, pkg,
                                   vi, RemoteRun("ok", "ok", "ok"),
                                   autostart)))

CreateVmWithRemoteCloudinit ==
    /\ last = Idle
    /\ \E name \in VmNames, path \in CloudInitRefs, mac \in RandomMacs,
          rpkg \in RemotePkgBasic, vi \in VirtInstallOutcomes :
       \E ssh \in IF IsSsh(LIBVIRT_DEFAULT_URI) THEN SshOutcomes ELSE {"ok"} :
          Answer("create_vm_with_remote_cloudinit", "remote", name,
                 create_vm_with_remote_cloudinit(
                     Host, Request(name, path, mac, "none", "ok", ssh,
                                   [exit |-> "zero", wrote |-> TRUE], vi,
                                   rpkg, FALSE)))

InitCloudInit ==
    /\ LIBVIRT_DEFAULT_URI \in Uris
    /\ tools \in ToolSets
    /\ domains = <<>>
    /\ cacheFiles = [p \in CachePaths |-> "absent"]
    /\ localFs = {PathNoble}
    /\ remoteFs = {PathNoble}
    /\ isoFiles = NoIso
    /\ diskFiles = NoDisk
    /\ agent = NoAgent
    /\ leases = <<>>
    /\ arpTable = [kind |-> "missing", lines |-> <<>>]
    /\ last = Idle
    /\ prev = Idle

NextCloudInit ==
    \/ CreateVmWithCloudinit
    \/ CreateVmWithCloudinitInstall
    \/ CreateVmWithRemoteCloudinit
    \/ DestroyVm
    \/ Respond

SpecCloudInit == InitCloudInit /\ [][NextCloudInit]_vars

CloudInitOps ==
    {"create_vm_with_cloudinit", "create_vm_with_cloudinit_install",
     "create_vm_with_remote_cloudinit"}

IsoTools == {"cloud_localds", "genisoimage", "mkisofs"}

\* C11: create_vm_with_cloudinit on a host with none of cloud-localds,
\* genisoimage and mkisofs defines no domain and changes none, returns an
\* error, runs no backend and leaves no <name>-cloudinit.iso; when the call
\* gets as far as the packaging (the image resolved, the connection
\* opened), the error is the ISO-creation failure that names the missing
\* tools
C11_NoToolDefinesNothing ==
    (last.op = "create_vm_with_cloudinit" /\ tools \cap IsoTools = {}) =>
        /\ last.untouched
        /\ ~last.defined
        /\ ~last.packaged
        /\ last.ran = <<>>
        /\ ~isoFiles["local", last.name]
        /\ last.result \in {MsgResolution, MsgLibvirt, MsgIsoFailed}
        /\ last.result = MsgIsoFailed => last.iso_error = MsgNoTool

\* the call reached the packaging and failed for want of a tool
C11_Witness ==
    /\ last.op = "create_vm_with_cloudinit"
    /\ tools \cap IsoTools = {}
    /\ last.result = MsgIsoFailed
    /\ last.iso_error = MsgNoTool
    /\ last.name \notin DOMAIN domains
    /\ ~isoFiles["local", last.name]

\* C21: with the hypervisor reached over SSH, every cloud-init create variant
\* packages the ISO on the remote host, and a domain it defines has its ISO
\* at <images-dir>/<name>-cloudinit.iso of that host
C21_SshPackagesOnRemote ==
    (last.op \in CloudInitOps /\ IsSsh(LIBVIRT_DEFAULT_URI)) =>
        /\ last.packaged => last.host = "remote"
        /\ last.defined => isoFiles["remote", last.name]

\* C23: a call in which opening the hypervisor connection failed returns the
\* connection error, never OK; the open made to set autostart after a
\* successful install is one of these
C23_FailedOpenIsReported ==
    (last.op \in CloudInitOps /\ last.open_failed) =>
        last.result = MsgLibvirt

\* C32: a create_vm_with_cloudinit or create_vm_with_cloudinit_install call
\* that fails at its define step because the name is already defined leaves
\* the cloud-init ISO of the existing VM in place
C32_FailedCreateKeepsExistingIso ==
    (/\ last.op \in {"create_vm_with_cloudinit",
                     "create_vm_with_cloudinit_install"}
     /\ last.packaged
     /\ ~last.defined
     /\ last.result # MsgOK
     /\ last.untouched
     /\ last.name \in DOMAIN domains
     /\ domains[last.name].xml.cdrom_path = iso_path(last.name)
     /\ last.iso_before) =>
        isoFiles[last.host, last.name]

-----------------------------------------------------------------------------
(* SpecPackage: the two packaging functions on their own, local and remote *)

PackagingToolSets == SUBSET IsoTools

GenerateCloudinitIso ==
    /\ last = Idle
    /\ \E name \in VmNames, tmp \in TmpOutcomes,
          pkg \in PkgOf(tools) \cup {Hang} :
          LET g == generate_cloudinit_iso(isoFiles["local", name], tools,
                                          pkg, tmp)
          IN  /\ isoFiles' = [isoFiles EXCEPT !["local", name] = g.exists]
              /\ last' = [op |-> "generate_cloudinit_iso", name |-> name,
                          success |-> g.success, ran |-> g.ran,
                          error |-> g.error, tmp_left |-> g.tmp_left,
                          tmp |-> tmp, exit |-> pkg.exit,
                          iso_before |-> isoFiles["local", name],
                          returned |-> Returns(tools, pkg, tmp)]
    /\ UNCHANGED <<cfgVars, diskFiles, domains, cacheFiles, localFs, remoteFs, netVars,
                   prev>>

CreateRemoteCloudinitIso ==
    /\ last = Idle
    /\ \E name \in VmNames, ssh \in SshOutcomes, rpkg \in RemotePkgOutcomes :
          LET g == create_remote_cloudinit_iso(isoFiles["remote", name],
                                               LIBVIRT_DEFAULT_URI, ssh, rpkg)
          IN  /\ isoFiles' = [isoFiles EXCEPT !["remote", name] = g.exists]
              /\ last' = [op |-> "create_remote_cloudinit_iso",
                          name |-> name, success |-> g.success,
                          ran |-> g.ran, error |-> g.error,
                          tmp_left |-> g.tmp_left, ssh |-> ssh,
                          rpkg |-> rpkg,
                          iso_before |-> isoFiles["remote", name],
                          returned |-> TRUE]
    /\ UNCHANGED <<cfgVars, diskFiles, domains, cacheFiles, localFs, remoteFs, netVars,
                   prev>>

InitPackage ==
    /\ LIBVIRT_DEFAULT_URI \in Uris
    /\ tools \in PackagingToolSets
    /\ domains = <<>>
    /\ cacheFiles = [p \in CachePaths |-> "absent"]
    /\ localFs = {PathNoble}
    /\ remoteFs = {PathNoble}
    /\ isoFiles = NoIso
    /\ diskFiles = NoDisk
    /\ agent = NoAgent
    /\ leases = <<>>
    /\ arpTable = [kind |-> "missing", lines |-> <<>>]
    /\ last = Idle
    /\ prev = Idle

NextPackage ==
    \/ GenerateCloudinitIso
    \/ CreateRemoteCloudinitIso
    \/ Respond

SpecPackage == InitPackage /\ [][NextPackage]_vars

\* C16: the input files written to /tmp of the remote host are removed
\* before the call returns, on every exit path
C16_RemoteInputsRemoved ==
    last.op = "create_remote_cloudinit_iso" => last.tmp_left = {}

\* C17: every local temporary file made by a packaging call is removed before
\* the call returns, on every exit path, an exception after the first file
\* was made included
C17_LocalTempFilesRemoved ==
    (last.op = "generate_cloudinit_iso" /\ last.returned) =>
        last.tmp_left = {}

\* the elements of a sequence
Ran(s) == {s[i] : i \in 1..Len(s)}

\* C18: local and remote, a fallback backend is invoked only when the
\* preferred one is not installed; a preferred backend that is installed and
\* fails (error exit or timeout) is the only one invoked and the call fails
C18_FallbackOnlyWhenMissing ==
    /\ (last.op = "generate_cloudinit_iso" /\ last.tmp = "ok") =>
          /\ "cloud_localds" \in tools => last.ran = <<"cloud_localds">>
          /\ "genisoimage" \in tools => "mkisofs" \notin Ran(last.ran)
          /\ (last.ran # <<>> /\ last.exit = "other") =>
                ~last.success /\ last.error # ""
    /\ (last.op = "create_remote_cloudinit_iso" /\ last.ran # <<>>) =>
          /\ "mkisofs" \in Ran(last.ran) => last.rpkg.localds = "missing"
          /\ last.rpkg.localds \in {"error", "timeout"} =>
                ~last.success /\ last.error # ""

\* the backend the order cloud-localds, genisoimage, mkisofs gives for a set
\* of installed tools
FirstAvailable(tls) ==
    IF "cloud_localds" \in tls THEN <<"cloud_localds">>
    ELSE IF "genisoimage" \in tls THEN <<"genisoimage">>
    ELSE IF "mkisofs" \in tls THEN <<"mkisofs">>
    ELSE <<>>

\* C19: a local packaging call whose input files were written invokes
\* exactly one backend, the first installed one in the order cloud-localds,
\* genisoimage, mkisofs; with none installed it invokes nothing and fails
\* with the error that names the missing tools.  No call invokes more than
\* one backend
C19_FirstAvailableBackend ==
    last.op = "generate_cloudinit_iso" =>
        /\ Len(last.ran) <= 1
        /\ last.tmp = "ok" =>
              /\ last.ran = FirstAvailable(tools)
              /\ tools \cap IsoTools # {} => Len(last.ran) = 1
              /\ tools \cap IsoTools = {} =>
                    /\ last.ran = <<>>
                    /\ ~last.success
                    /\ last.error = MsgNoTool

\* mkisofs ran because neither cloud-localds nor genisoimage is installed
C19_Witness ==
    /\ last.op = "generate_cloudinit_iso"
    /\ tools = {"mkisofs"}
    /\ last.ran = <<"mkisofs">>
    /\ last.success

\* C20: a non-zero exit of genisoimage or mkisofs is a success exactly when
\* its diagnostics are the rc-file permission warning and the ISO file
\* exists after the run; otherwise the call returns the creation error
C20_WarningWithIsoIsSuccess ==
    (/\ last.op = "generate_cloudinit_iso"
     /\ last.ran \in {<<"genisoimage">>, <<"mkisofs">>}
     /\ last.exit \in {"rcwarning", "other"}) =>
        /\ last.success <=>
              (last.exit = "rcwarning" /\ isoFiles["local", last.name])
        /\ ~last.success => last.error = MsgCreateIsoFailed
        /\ last.success => last.error = ""
        /\ last.returned

\* genisoimage exited with the warning, the ISO is there, and the call
\* succeeded
C20_Witness ==
    /\ last.op = "generate_cloudinit_iso"
    /\ last.ran = <<"genisoimage">>
    /\ last.exit = "rcwarning"
    /\ isoFiles["local", last.name]
    /\ last.success

-----------------------------------------------------------------------------
(* get_vm_ip: the address discovery chain (guest agent, DHCP leases, ARP)   *)

\* MAC address texts; Lower is str.lower() on them
MacUpper == "52:54:00:0C:94:61"
MacB     == "52:54:00:a1:b2:c3"
MacOther == "52:54:00:ff:ee:dd"
NoMac    == "none"                  \* an <interface> without a <mac> element
NoNet    == "none"                  \* no <source>, or no network attribute
NoHint   == ""                      \* network_name is None

Lower(text) == IF text = MacUpper THEN FixedMac ELSE text

\* str.startswith
StartsWith(s, prefix) ==
    /\ Len(s) >= Len(prefix)
    /\ SubSeq(s, 1, Len(prefix)) = prefix

\* the interface list taken from the domain XML but with the MAC texts as
\* they are written there
ExtractInterfacesRaw(xml) ==
    SelectSeq(xml.interfaces, LAMBDA i : i.mac # NoMac)

\* lines 697-708: the interfaces that have a <mac>, the address lower-cased
ExtractInterfaces(xml) ==
    LET with_mac == SelectSeq(xml.interfaces, LAMBDA i : i.mac # NoMac)
    IN  [k \in 1..Len(with_mac) |->
            [mac |-> Lower(with_mac[k].mac), network |-> with_mac[k].network]]

MacsOf(interfaces) == {interfaces[k].mac : k \in 1..Len(interfaces)}

NotFoundBy == [found |-> FALSE, ip |-> <<>>, iface |-> <<>>, net |-> ""]

\* the first IPv4 address of `addrs`, from position j on, that is no
\* loopback address; 0 when there is none
RECURSIVE FirstAddr(_, _)
FirstAddr(addrs, j) ==
    IF j > Len(addrs) THEN 0
    ELSE IF addrs[j].type = "ipv4" /\ addrs[j].addr[1] # 127 THEN j
    ELSE FirstAddr(addrs, j + 1)

\* an agent scan that takes the first address of any interface
RECURSIVE AgentScanAny(_, _)
AgentScanAny(ifaces, k) ==
    IF k > Len(ifaces) THEN NotFoundBy
    ELSE IF Len(ifaces[k].addrs) > 0
    THEN [found |-> TRUE, ip |-> ifaces[k].addrs[1].addr,
          iface |-> ifaces[k].name, net |-> ""]
    ELSE AgentScanAny(ifaces, k + 1)

\* lines 719-730: the interfaces in the order the agent reports them
RECURSIVE AgentScan(_, _)
AgentScan(ifaces, k) ==
    IF k > Len(ifaces) THEN NotFoundBy
    ELSE IF StartsWith(ifaces[k].name, <<"l", "o">>)
    THEN AgentScan(ifaces, k + 1)
    ELSE LET j == FirstAddr(ifaces[k].addrs, 1)
         IN  IF j > 0
             THEN [found |-> TRUE, ip |-> ifaces[k].addrs[j].addr,
                   iface |-> ifaces[k].name, net |-> ""]
             ELSE AgentScan(ifaces, k + 1)

\* an agent strategy that does not pass over loopback
AgentStrategyAny(answer) ==
    IF answer.kind = "error" THEN NotFoundBy
    ELSE AgentScanAny(answer.ifaces, 1)

\* Method 1: a libvirtError of interfaceAddresses is swallowed
AgentStrategy(answer) ==
    IF answer.kind = "error" THEN NotFoundBy ELSE AgentScan(answer.ifaces, 1)

\* lines 741-743: the networks of the interfaces, each once, in order
RECURSIVE AutoNetworks(_, _, _)
AutoNetworks(interfaces, k, acc) ==
    IF k > Len(interfaces) THEN acc
    ELSE LET n == interfaces[k].network
         IN  IF n # NoNet /\ \A i \in 1..Len(acc) : acc[i] # n
             THEN AutoNetworks(interfaces, k + 1, Append(acc, n))
             ELSE AutoNetworks(interfaces, k + 1, acc)

\* candidates with the network named default in front
NetworksDefaultFirst(interfaces, network_name) ==
    IF network_name # NoHint THEN <<network_name>>
    ELSE <<"default">> \o SelectSeq(AutoNetworks(interfaces, 1, <<>>),
                                    LAMBDA n : n # "default")

networks_to_check(interfaces, network_name) ==
    IF network_name # NoHint THEN <<network_name>>
    ELSE LET nets == AutoNetworks(interfaces, 1, <<>>)
         IN  IF \E i \in 1..Len(nets) : nets[i] = "default"
             THEN nets ELSE Append(nets, "default")

\* lines 753-757: the first lease whose MAC is one of the VM's; 0 when none
RECURSIVE FirstLease(_, _, _)
FirstLease(lease_list, macs, j) ==
    IF j > Len(lease_list) THEN 0
    ELSE IF Lower(lease_list[j].mac) \in macs THEN j
    ELSE FirstLease(lease_list, macs, j + 1)

\* Method 2: a network that cannot be looked up is passed over
RECURSIVE DhcpStrategy(_, _, _, _)
DhcpStrategy(nets, table, macs, k) ==
    IF k > Len(nets) THEN NotFoundBy
    ELSE IF nets[k] \notin DOMAIN table
    THEN DhcpStrategy(nets, table, macs, k + 1)
    ELSE LET j == FirstLease(table[nets[k]], macs, 1)
         IN  IF j > 0
             THEN [found |-> TRUE, ip |-> table[nets[k]][j].ipaddr,
                   iface |-> <<>>, net |-> nets[k]]
             ELSE DhcpStrategy(nets, table, macs, k + 1)

\* a validation that counts the numbers and does not look at their range
ValidArpIpAnyRange(line) ==
    /\ line.has_ip
    /\ Len(line.octets) = 4
    /\ \A i \in 1..4 : line.octets[i] >= 0

\* lines 774-781: a parenthesised group of digits and dots, split at the
\* dots into exactly four numbers from 0 to 255 (-1: an empty token)
ValidArpIp(line) ==
    /\ line.has_ip
    /\ Len(line.octets) = 4
    /\ \A i \in 1..4 : line.octets[i] >= 0 /\ line.octets[i] <= 255

RECURSIVE FirstArpLine(_, _, _)
FirstArpLine(lines, mac, j) ==
    IF j > Len(lines) THEN 0
    ELSE IF Lower(lines[j].mac) = mac /\ ValidArpIp(lines[j]) THEN j
    ELSE FirstArpLine(lines, mac, j + 1)

\* Method 3: `arp -a` is run for each interface in turn
RECURSIVE ArpStrategy(_, _, _)
ArpStrategy(table, interfaces, k) ==
    IF table.kind = "missing" \/ k > Len(interfaces) THEN NotFoundBy
    ELSE IF table.kind = "error"
    THEN ArpStrategy(table, interfaces, k + 1)
    ELSE LET j == FirstArpLine(table.lines, interfaces[k].mac, 1)
         IN  IF j > 0
             THEN [found |-> TRUE, ip |-> table.lines[j].octets,
                   iface |-> <<>>, net |-> ""]
             ELSE ArpStrategy(table, interfaces, k + 1)

MsgNoInterfaces == "No network interfaces found for VM"
MsgNoIp == "No IP found for VM with MACs"

\* what get_vm_ip returns: `kind` tells the texts apart, `consulted` lists
\* the strategies that were run
Found(s, method, consulted) ==
    [kind |-> "address", ip |-> s.ip, method |-> method, iface |-> s.iface,
     net |-> s.net, macs |-> <<>>, consulted |-> consulted]

NoAddress(kind, macs, consulted) ==
    [kind |-> kind, ip |-> <<>>, method |-> "", iface |-> <<>>, net |-> "",
     macs |-> macs, consulted |-> consulted]

\* a chain that looks at the DHCP leases before it asks the guest agent
ChainDhcpFirst(active, a, d, p, has_arp, mac_list) ==
    IF d.found THEN Found(d, "dhcp", <<"dhcp">>)
    ELSE IF active /\ a.found THEN Found(a, "agent", <<"dhcp", "agent">>)
    ELSE IF p.found THEN Found(p, "arp", <<"dhcp", "agent", "arp">>)
    ELSE NoAddress(MsgNoIp, mac_list, <<"dhcp", "agent", "arp">>)

\* lines 714-792: a, d, p are what the three strategies find when they are
\* run; each is run only when the ones before it found nothing
Chain(active, a, d, p, has_arp, mac_list) ==
    LET c1 == IF active THEN <<"agent">> ELSE <<>>
        c2 == Append(c1, "dhcp")
        c3 == IF has_arp THEN Append(c2, "arp") ELSE c2
    IN  IF active /\ a.found THEN Found(a, "agent", c1)
        ELSE IF d.found THEN Found(d, "dhcp", c2)
        ELSE IF p.found THEN Found(p, "arp", c3)
        ELSE NoAddress(MsgNoIp, mac_list, c3)

IpFaults == {"none", "open", "lookup"}

get_vm_ip(doms, agents, lease_table, arp_table, vm_name, network_name, fault) ==
    IF fault = "open" THEN NoAddress(MsgLibvirt, <<>>, <<>>)
    ELSE IF vm_name \notin DOMAIN doms \/ fault = "lookup"
    THEN NoAddress(MsgNotFound, <<>>, <<>>)
    ELSE
    LET interfaces == ExtractInterfaces(doms[vm_name].xml)
        mac_list == [k \in 1..Len(interfaces) |-> interfaces[k].mac]
    IN  IF interfaces = <<>>
        THEN NoAddress(MsgNoInterfaces, <<>>, <<>>)
        ELSE Chain(doms[vm_name].active,
                   AgentStrategy(agents[vm_name]),
                   DhcpStrategy(networks_to_check(interfaces, network_name),
                                lease_table, MacsOf(interfaces), 1),
                   ArpStrategy(arp_table, interfaces, 1),
                   arp_table.kind # "missing",
                   mac_list)

-----------------------------------------------------------------------------
(* SpecDiscover: get_vm_ip for one VM, defined outside this server, with    *)
(* every combination of interfaces, agent answer, leases and ARP table      *)

MaxIfaces == 2

IfaceOptions ==
    {[mac |-> MacUpper, network |-> "default"],
     [mac |-> MacB, network |-> "lab"],
     [mac |-> NoMac, network |-> "default"],
     [mac |-> FixedMac, network |-> NoNet]}

IfaceLists ==
    UNION {[1..n -> IfaceOptions] : n \in 0..MaxIfaces}

Lo   == <<"l", "o">>
Lan0 == <<"l", "a", "n", "0">>
Eth0 == <<"e", "t", "h", "0">>

V4(a, b, c, d) == [type |-> "ipv4", addr |-> <<a, b, c, d>>]
V6LinkLocal == [type |-> "ipv6", addr |-> <<65152, 0, 0, 1>>]

AgentAnswers ==
    {[kind |-> "error", ifaces |-> <<>>],
     [kind |-> "ok", ifaces |-> <<>>],
     [kind |-> "ok",
      ifaces |-> <<[name |-> Lo, addrs |-> <<V4(127, 0, 0, 1)>>]>>],
     [kind |-> "ok",
      ifaces |-> <<[name |-> Lo, addrs |-> <<V4(10, 0, 0, 9)>>],
                   [name |-> Eth0,
                    addrs |-> <<V6LinkLocal, V4(127, 0, 1, 1)>>]>>],
     [kind |-> "ok",
      ifaces |-> <<[name |-> Lo, addrs |-> <<V4(127, 0, 0, 1)>>],
                   [name |-> Eth0,
                    addrs |-> <<V6LinkLocal, V4(127, 0, 1, 1),
                                V4(192, 168, 122, 50), V4(10, 0, 0, 7)>>]>>],
     [kind |-> "ok",
      ifaces |-> <<[name |-> Eth0, addrs |-> <<>>],
                   [name |-> Lan0, addrs |-> <<V4(10, 0, 0, 7)>>]>>]}

Lease(mac, a, b, c, d) == [mac |-> mac, ipaddr |-> <<a, b, c, d>>]

\* the DHCP leases of the virtual networks that exist
LeaseTables ==
    {<<>>,
     [n \in {"default"} |-> <<Lease(MacOther, 192, 168, 122, 60)>>],
     [n \in {"default", "lab"} |->
        IF n = "default"
        THEN <<Lease(MacOther, 192, 168, 122, 60),
               Lease(MacUpper, 192, 168, 122, 50)>>
        ELSE <<Lease(MacB, 10, 0, 0, 7)>>],
     [n \in {"lab"} |-> <<Lease(MacB, 10, 0, 0, 7)>>],
     [n \in {"default", "other"} |->
        IF n = "default" THEN <<>>
        ELSE <<Lease(FixedMac, 172, 16, 0, 5)>>],
     [n \in {"default"} |-> <<Lease(MacUpper, 192, 168, 122, 50)>>]}

ArpLine(mac, octets) == [mac |-> mac, has_ip |-> TRUE, octets |-> octets]

\* `arp -a`: not installed, failing, or printing these lines
ArpTables ==
    {[kind |-> "missing", lines |-> <<>>],
     [kind |-> "error", lines |-> <<>>],
     [kind |-> "ok", lines |-> <<>>],
     [kind |-> "ok",
      lines |-> <<ArpLine(MacOther, <<192, 168, 122, 60>>),
                  ArpLine(MacUpper, <<192, 168, 122, 300>>),
                  ArpLine(FixedMac, <<192, 168, -1, 51>>),
                  ArpLine(MacUpper, <<192, 168, 122, 51>>)>>],
     [kind |-> "ok",
      lines |-> <<[mac |-> FixedMac, has_ip |-> FALSE, octets |-> <<>>],
                  ArpLine(MacB, <<10, 0, 7>>)>>],
     [kind |-> "ok", lines |-> <<ArpLine(MacB, <<10, 0, 0, 8>>)>>],
     [kind |-> "ok",
      lines |-> <<ArpLine(MacUpper, <<192, 168, 122, 51>>),
                  ArpLine(MacB, <<10, 0, 0, 8>>)>>]}

Hints == {NoHint, "lab", "other"}

TheVm == NameOf[1]

GetVmIp ==
    /\ last = Idle
    /\ \E vm_name \in VmNames, network_name \in Hints, fault \in IpFaults :
          last' = [op |-> "get_vm_ip", vm_name |-> vm_name,
                   network_name |-> network_name, faulted |-> fault # "none",
                   result |-> get_vm_ip(domains, agent, leases, arpTable,
                                        vm_name, network_name, fault)]
    /\ UNCHANGED <<cfgVars, hvVars, fsVars, netVars, prev>>

InitDiscover ==
    /\ LIBVIRT_DEFAULT_URI = LocalUri
    /\ tools = AllTools
    /\ \E ifs \in IfaceLists, active \in BOOLEAN :
          domains = [n \in {TheVm} |->
                        [xml |-> [name |-> n, uuid |-> 1, memory |-> 2048,
                                  cores |-> 2, disk_path |-> PlainPath(PathNoble),
                                  mac_address |-> FixedMac,
                                  cdrom_path |-> NoPath, interfaces |-> ifs],
                         active |-> active, persistent |-> TRUE]]
    /\ cacheFiles = [p \in CachePaths |-> "absent"]
    /\ localFs = {PathNoble}
    /\ remoteFs = {PathNoble}
    /\ isoFiles = NoIso
    /\ diskFiles = NoDisk
    /\ \E a \in AgentAnswers :
          agent = [n \in VmNames |-> IF n = TheVm THEN a ELSE NoAgent[n]]
    /\ leases \in LeaseTables
    /\ arpTable \in ArpTables
    /\ last = Idle
    /\ prev = Idle

NextDiscover ==
    \/ GetVmIp
    \/ GuestPowerOff
    \/ Respond

SpecDiscover == InitDiscover /\ [][NextDiscover]_vars

-----------------------------------------------------------------------------
(* Properties of get_vm_ip.  While `last` holds its answer the hypervisor,  *)
(* the agent, the leases and the ARP table are as the call found them.      *)

Answered ==
    /\ last.op = "get_vm_ip"
    /\ ~last.faulted
    /\ last.vm_name \in DOMAIN domains

VmIfaces == domains[last.vm_name].xml.interfaces
VmActive == domains[last.vm_name].active

\* the lower-cased MAC addresses of the VM's interfaces, in interface order
VmMacList ==
    LET with_mac == SelectSeq(VmIfaces, LAMBDA i : i.mac # NoMac)
    IN  [k \in 1..Len(with_mac) |-> Lower(with_mac[k].mac)]

VmMacs == {VmMacList[k] : k \in 1..Len(VmMacList)}

\* the agent reports an IPv4 address outside 127.* on an interface whose
\* name does not start with "lo"
AgentQualifies ==
    LET ifaces == agent[last.vm_name].ifaces
    IN  /\ agent[last.vm_name].kind = "ok"
        /\ \E k \in 1..Len(ifaces) :
              /\ ~(/\ Len(ifaces[k].name) >= 2
                   /\ ifaces[k].name[1] = "l"
                   /\ ifaces[k].name[2] = "o")
              /\ \E j \in 1..Len(ifaces[k].addrs) :
                    /\ ifaces[k].addrs[j].type = "ipv4"
                    /\ ifaces[k].addrs[j].addr[1] # 127

\* the networks whose leases the call may look at
CandidateNets ==
    IF last.network_name # NoHint THEN {last.network_name}
    ELSE {VmIfaces[k].network :
             k \in {i \in 1..Len(VmIfaces) :
                       VmIfaces[i].mac # NoMac /\ VmIfaces[i].network # NoNet}}
         \cup {"default"}

MatchingLease(n, j) ==
    /\ n \in CandidateNets \cap DOMAIN leases
    /\ j \in 1..Len(leases[n])
    /\ Lower(leases[n][j].mac) \in VmMacs

LeaseMatches ==
    \E n \in CandidateNets \cap DOMAIN leases :
       \E j \in 1..Len(leases[n]) : MatchingLease(n, j)

\* an ARP line with one of the VM's MACs and a well-formed address
ArpMatches ==
    /\ arpTable.kind = "ok"
    /\ \E j \in 1..Len(arpTable.lines) :
          /\ Lower(arpTable.lines[j].mac) \in VmMacs
          /\ arpTable.lines[j].has_ip
          /\ Len(arpTable.lines[j].octets) = 4
          /\ \A i \in 1..4 : arpTable.lines[j].octets[i] \in 0..255

\* C7: get_vm_ip tries the guest agent, then the DHCP leases, then the ARP
\* table, and answers with the first that succeeds: an address from a lease
\* only if the agent was not asked or had no qualifying address, an address
\* from the ARP table only if the leases had none either, and no strategy is
\* run after one has succeeded
C7_StrategyOrder ==
    (Answered /\ VmMacs # {}) =>
        LET r == last.result
            agent_first == IF VmActive THEN <<"agent">> ELSE <<>>
            agent_ok == VmActive /\ AgentQualifies
        IN  /\ agent_ok =>
                  r.method = "agent" /\ r.consulted = agent_first
            /\ (~agent_ok /\ LeaseMatches) =>
                  r.method = "dhcp" /\ r.consulted = Append(agent_first, "dhcp")
            /\ (~agent_ok /\ ~LeaseMatches /\ ArpMatches) =>
                  /\ r.method = "arp"
                  /\ r.consulted = agent_first \o <<"dhcp", "arp">>
            /\ r.method = "dhcp" => ~agent_ok
            /\ r.method = "arp" => ~agent_ok /\ ~LeaseMatches

\* a lease answers for a running VM although the ARP table has the VM too
C7_Witness ==
    /\ Answered
    /\ VmActive
    /\ agent[last.vm_name].kind = "ok"
    /\ last.result.method = "dhcp"
    /\ last.result.consulted = <<"agent", "dhcp">>
    /\ ArpMatches

C28_DhcpCandidateOrder ==
    (Answered /\ VmMacs # {} /\ ~(VmActive /\ AgentQualifies)) =>
        LET refs == SelectSeq(VmIfaces,
                              LAMBDA i : i.mac # NoMac /\ i.network # NoNet)
            keep == {k \in 1..Len(refs) :
                        \A i \in 1..(k - 1) : refs[i].network # refs[k].network}
            auto == [n \in 1..Cardinality(keep) |->
                        refs[CHOOSE k \in keep :
                                Cardinality({i \in keep : i <= k}) = n].network]
            cand == IF last.network_name # NoHint THEN <<last.network_name>>
                    ELSE IF \E n \in 1..Len(auto) : auto[n] = "default"
                    THEN auto
                    ELSE Append(auto, "default")
            hits(k) == IF cand[k] \in DOMAIN leases
                       THEN {j \in 1..Len(leases[cand[k]]) :
                                Lower(leases[cand[k]][j].mac) \in VmMacs}
                       ELSE {}
            nets == {k \in 1..Len(cand) : hits(k) # {}}
        IN  /\ nets = {} => last.result.method # "dhcp"
            /\ nets # {} =>
                  LET k == CHOOSE x \in nets : \A y \in nets : x <= y
                      j == CHOOSE x \in hits(k) : \A y \in hits(k) : x <= y
                  IN  /\ last.result.method = "dhcp"
                      /\ last.result.net = cand[k]
                      /\ last.result.ip = leases[cand[k]][j].ipaddr

\* no hint; the first interface is on lab and the second on default, both
\* networks hold a lease of the VM, and the lease of lab answers
C28_Witness ==
    /\ Answered
    /\ last.network_name = NoHint
    /\ Len(VmIfaces) = 2
    /\ VmIfaces[1].network = "lab"
    /\ VmIfaces[2].network = "default"
    /\ MatchingLease("default", 2)
    /\ MatchingLease("lab", 1)
    /\ last.result.method = "dhcp"
    /\ last.result.net = "lab"

\* C29: an address from the ARP strategy has exactly four numbers from 0 to
\* 255 and stands in an ARP line that carries one of the VM's MACs; lines
\* with a malformed or out-of-range address are passed over, and the answer
\* is the first well-formed match in the order of the scan (interface by
\* interface, line by line)
C29_ArpAddressValidated ==
    (Answered /\ last.result.method = "arp") =>
        LET lines == arpTable.lines
            wellformed(j) == /\ lines[j].has_ip
                             /\ Len(lines[j].octets) = 4
                             /\ \A i \in 1..4 : lines[j].octets[i] \in 0..255
            good(k) == {j \in 1..Len(lines) :
                           /\ Lower(lines[j].mac) = VmMacList[k]
                           /\ wellformed(j)}
            ifs == {k \in 1..Len(VmMacList) : good(k) # {}}
            k0 == CHOOSE x \in ifs : \A y \in ifs : x <= y
            j0 == CHOOSE x \in good(k0) : \A y \in good(k0) : x <= y
        IN  /\ arpTable.kind = "ok"
            /\ Len(last.result.ip) = 4
            /\ \A i \in 1..4 : last.result.ip[i] \in 0..255
            /\ ifs # {}
            /\ last.result.ip = lines[j0].octets

\* the answer is the fourth line of the table: the second and the third
\* carry the VM's MAC with an address out of range and a malformed one
C29_Witness ==
    /\ Answered
    /\ last.result.method = "arp"
    /\ Len(arpTable.lines) = 4
    /\ Lower(arpTable.lines[2].mac) \in VmMacs
    /\ arpTable.lines[2].octets[4] = 300
    /\ last.result.ip = arpTable.lines[4].octets

\* C9: the guest agent is asked only when the VM is running; an address it
\* gives is IPv4, outside 127.*, from an interface whose name does not start
\* with "lo"; when it fails or reports only loopback interfaces or
\* addresses, a matching lease is returned, tagged as DHCP
C9_AgentSkipsLoopback ==
    Answered =>
        LET r == last.result
            ifaces == agent[last.vm_name].ifaces
        IN  /\ (\E i \in 1..Len(r.consulted) : r.consulted[i] = "agent")
                  => VmActive
            /\ r.method = "agent" =>
                  /\ VmActive
                  /\ r.ip[1] # 127
                  /\ ~(Len(r.iface) >= 2 /\ r.iface[1] = "l" /\ r.iface[2] = "o")
                  /\ \E k \in 1..Len(ifaces) :
                        /\ ifaces[k].name = r.iface
                        /\ \E j \in 1..Len(ifaces[k].addrs) :
                              /\ ifaces[k].addrs[j].addr = r.ip
                              /\ ifaces[k].addrs[j].type = "ipv4"
            /\ (VmMacs # {} /\ VmActive /\ ~AgentQualifies /\ LeaseMatches) =>
                  /\ r.kind = "address"
                  /\ r.method = "dhcp"
                  /\ \E j \in 1..Len(leases[r.net]) :
                        /\ MatchingLease(r.net, j)
                        /\ leases[r.net][j].ipaddr = r.ip

\* a running VM whose agent reports only loopback gets its lease address
C9_Witness ==
    /\ Answered
    /\ VmActive
    /\ agent[last.vm_name].kind = "ok"
    /\ agent[last.vm_name].ifaces # <<>>
    /\ ~AgentQualifies
    /\ last.result.method = "dhcp"

-----------------------------------------------------------------------------
(* Properties of the lifecycle tools, under Spec *)

\* the call moved the old domain's configuration to the new name
Renamed ==
    /\ last.old_name \in DOMAIN last.pre
    /\ last.old_name # last.new_name
    /\ last.old_name \notin DOMAIN domains
    /\ last.new_name \in DOMAIN domains
    /\ domains[last.new_name].xml =
          [last.pre[last.old_name].xml EXCEPT !.name = last.new_name]

\* C12: when rename_vm has undefined the old domain and defined the new one
\* and the restart of the VM that was running fails, the result is the
\* restart-failed message, which is neither "OK" nor a rename failure, and
\* the domain stays defined (stopped) under the new name, the old name
\* undefined (for a new name that differs from the old one)
C12_RestartFailureKeepsRename ==
    (last.op = "rename_vm" /\ last.old_name # last.new_name) =>
        /\ last.result = MsgRestartFailed =>
              /\ Renamed
              /\ last.pre[last.old_name].active
              /\ domains[last.new_name].persistent
              /\ ~domains[last.new_name].active
        /\ (/\ Renamed
            /\ last.pre[last.old_name].active
            /\ ~domains[last.new_name].active) =>
              last.result = MsgRestartFailed
        /\ MsgRestartFailed \notin
              {MsgOK, MsgRenameFailed, MsgExists, MsgStopForRename,
               MsgLibvirt, MsgNotFound}

C12_Witness ==
    /\ last.op = "rename_vm"
    /\ last.result = MsgRestartFailed
    /\ Renamed
    /\ ~domains[last.new_name].active

\* C13: starting a running VM and stopping a stopped VM, gracefully or by
\* force, issue no state-changing hypervisor call and leave the hypervisor
\* as it was; the result ("already running", "OK") is none of the error
\* results
C13_NoOpStartAndStop ==
    /\ (last.op = "start_vm" /\ last.was_active) =>
          /\ last.calls = <<>>
          /\ last.unchanged
          /\ last.fault \notin {"start.open", "start.lookup"} =>
                last.result = MsgAlreadyRunning
    /\ (last.op = "shutdown_vm" /\ last.was_stopped) =>
          /\ last.calls = <<>>
          /\ last.unchanged
          /\ last.fault \notin {"stop.open", "stop.lookup"} =>
                last.result = MsgOK
    /\ (last.op = "destroy_vm" /\ last.was_stopped) =>
          /\ \A i \in 1..Len(last.calls) : last.calls[i] = "undefine"
          /\ last.fault \notin {"open", "lookup", "stop.open", "stop.lookup"}
                => ~last.stop_failed
    /\ \A n \in DOMAIN domains :
          ~domains[n].active =>
             \A force \in BOOLEAN :
                _stop_vm(domains, n, force, "none", TRUE) =
                   [success |-> TRUE, message |-> MsgOK, doms |-> domains,
                    calls |-> <<>>]
    /\ MsgAlreadyRunning \notin {MsgNotFound, MsgLibvirt, MsgStartFailed}
    /\ MsgOK \notin {MsgNotFound, MsgLibvirt, MsgStopFailed}

C13_Witness ==
    /\ last.op = "start_vm"
    /\ last.was_active
    /\ last.result = MsgAlreadyRunning
    /\ domains[last.vm_name].active

\* C14: destroy_vm of an existing VM stops it by force and then undefines
\* it, and "OK" means the name is neither running nor defined; when the
\* forced stop fails, undefine is not called, the domain stays as it was and
\* the failure message of the stop is returned
C14_DestroyStopsThenUndefines ==
    (last.op = "destroy_vm" /\ (last.was_active \/ last.was_stopped)) =>
        /\ last.result = MsgOK =>
              /\ last.vm_name \notin DOMAIN domains
              /\ last.calls = IF last.was_active
                              THEN <<"destroy", "undefine">>
                              ELSE <<"undefine">>
        /\ last.stop_failed =>
              /\ \A i \in 1..Len(last.calls) : last.calls[i] # "undefine"
              /\ last.unchanged
              /\ last.vm_name \in DOMAIN domains
              /\ last.result \in {MsgLibvirt, MsgNotFound, MsgStopFailed}
        /\ (last.fault = "none" /\ ~last.was_transient) =>
              last.result = MsgOK

C14_Witness ==
    /\ last.op = "destroy_vm"
    /\ last.was_active
    /\ last.result = MsgOK
    /\ last.vm_name \notin DOMAIN domains

\* C15: a domain is never undefined while it runs: every running domain has
\* its persistent definition (rename_vm undefines the old domain only once
\* it has stopped)
C15_RunningDomainIsDefined ==
    \A n \in DOMAIN domains : domains[n].active => domains[n].persistent

\* C31: rename_vm never loses the VM: whatever step fails, when the call
\* returns the VM's configuration is defined under exactly one of the old
\* name and the new name
C31_RenameNeverLosesVm ==
    (/\ last.op = "rename_vm"
     /\ last.old_name \in DOMAIN last.pre
     /\ last.pre[last.old_name].persistent) =>
        Cardinality({m \in SameVm(domains, last.pre, last.old_name) :
                        /\ m \in {last.old_name, last.new_name}
                        /\ domains[m].persistent}) = 1

\* C25: a packaging call returns even when the tool it runs hangs: every
\* subprocess and ssh command has a timeout, and the timed-out command is a
\* failure of the call
C25_HangingToolIsTimedOut ==
    last.op \in {"generate_cloudinit_iso", "create_remote_cloudinit_iso"} =>
        /\ last.returned
        /\ (last.op = "create_remote_cloudinit_iso"
            /\ last.ran # <<>>
            /\ last.rpkg.localds = "timeout"
            /\ last.rpkg.mkisofs # "ok") => ~last.success

-----------------------------------------------------------------------------
(* Properties of the calls an operation makes, under SpecCreate *)

\* C22: the hypervisor connection an operation opened is closed when the
\* operation returns, on every return path; create_vm leaves none open
C22_ConnectionsClosed ==
    last.op = "create_vm" => last.conns = 0

\* C24: create_vm ends by returning a string, OK or an error text, whatever
\* hypervisor call fails; no failure leaves the handler as an exception
C24_EveryFailureIsReturned ==
    last.op = "create_vm" => last.result # MsgUnhandled

\* C38: any two VMs the create operations have defined have different
\* interface MAC addresses, so that a lease or ARP entry matched by MAC
\* belongs to the VM that is asked about
C38_DistinctMacs ==
    \A a \in DOMAIN domains, b \in DOMAIN domains :
        a # b => domains[a].xml.mac_address # domains[b].xml.mac_address

\* C35: when create_vm or create_vm_with_cloudinit returns a result other
\* than OK for a name that was not defined before the call, no domain of that
\* name is defined after it; a failed start does not leave the domain the
\* call defined
C35_FailedCreateDefinesNothing ==
    (/\ \/ last.op = "create_vm" /\ ~last.was_defined
        \/ last.op = "create_vm_with_cloudinit" /\ last.defined
     /\ last.result \notin {MsgOK, MsgUnhandled}) =>
        last.name \notin DOMAIN domains

-----------------------------------------------------------------------------
(* SpecRace: two create calls for one name, their hypervisor and file      *)
(* steps interleaved.  Each call has resolved its image and opened its      *)
(* connection; no external call fails for a reason of its own.              *)

RaceVariants == {"create_vm", "create_vm_with_cloudinit"}

\* the calls start together; `calls[i].pc` is the step call i is about to take
BeginCreates ==
    /\ last = Idle
    /\ \E name \in VmNames, a \in RaceVariants, b \in RaceVariants :
          LET call(op) == [op |-> op, result |-> "", defined |-> FALSE,
                           pc |-> IF op = "create_vm" THEN "define"
                                  ELSE "package"]
          IN  last' = [op |-> "concurrent", name |-> name,
                       was_defined |-> name \in DOMAIN domains,
                       calls |-> <<call(a), call(b)>>, returned |-> FALSE]
    /\ UNCHANGED <<cfgVars, hvVars, fsVars, netVars, prev>>

\* the image directory of the hypervisor host
HvHost(uri) == IF IsSsh(uri) THEN "remote" ELSE "local"

\* one step of a call: generate_cloudinit_iso writes the ISO; defineXML
\* defines the domain or is refused, and create_vm_with_cloudinit then
\* removes the ISO at iso_path; _start_vm starts the domain, and
\* domain.create() fails for a domain whose cdrom image is not on the
\* hypervisor host
CreateStep(c, name, doms, isos, uri) ==
    LET cloudinit == c.op = "create_vm_with_cloudinit"
        domain_xml == _render_domain_xml(name, CloudInitSize.memory,
                                         CloudInitSize.cores,
                                         PlainPath(PathNoble), FixedMac,
                                         IF cloudinit THEN iso_path(name)
                                         ELSE NoPath)
        d == defineXML(doms, domain_xml)
        media == \/ name \notin DOMAIN doms
                 \/ doms[name].xml.cdrom_path = NoPath
                 \/ isos[HvHost(uri), name]
        s == _start_vm(doms, name, IF media THEN "none" ELSE "start.create")
    IN  IF c.pc = "package"
        THEN [call |-> [c EXCEPT !.pc = "define"], doms |-> doms,
              isos |-> [isos EXCEPT !["local", name] = TRUE]]
        ELSE IF c.pc = "define" /\ d.ok
        THEN [call |-> [c EXCEPT !.pc = "start", !.defined = TRUE],
              doms |-> d.doms, isos |-> isos]
        ELSE IF c.pc = "define"
        THEN [call |-> [c EXCEPT !.pc = "done", !.result = MsgLibvirt],
              doms |-> doms,
              isos |-> IF cloudinit THEN RemoveIso(isos, "local", name)
                       ELSE isos]
        ELSE [call |-> [c EXCEPT !.pc = "done", !.result = s.message],
              doms |-> s.doms, isos |-> isos]

RaceStep ==
    /\ last.op = "concurrent"
    /\ \E i \in 1..2 :
          /\ last.calls[i].pc # "done"
          /\ LET s == CreateStep(last.calls[i], last.name, domains, isoFiles,
                                 LIBVIRT_DEFAULT_URI)
                 calls == [last.calls EXCEPT ![i] = s.call]
             IN  /\ domains' = s.doms
                 /\ isoFiles' = s.isos
                 /\ last' = [last EXCEPT
                                !.calls = calls,
                                !.returned = \A j \in 1..2 :
                                                calls[j].pc = "done"]
    /\ UNCHANGED <<cfgVars, diskFiles, cacheFiles, localFs, remoteFs, netVars, prev>>

NextRace ==
    \/ BeginCreates
    \/ RaceStep
    \/ DestroyVm
    \/ Respond

SpecRace == InitCreate /\ [][NextRace]_vars

\* C26: of two concurrent create calls for a name that is not defined, on a
\* local hypervisor, exactly one defines the domain; that call returns OK,
\* the other returns an error, and when both have returned the domain is
\* defined and running
C26_OneCreateWins ==
    (/\ last.op = "concurrent"
     /\ last.returned
     /\ ~last.was_defined
     /\ ~IsSsh(LIBVIRT_DEFAULT_URI)) =>
        \E w \in 1..2 :
            /\ last.calls[w].defined
            /\ last.calls[w].result = MsgOK
            /\ ~last.calls[3 - w].defined
            /\ last.calls[3 - w].result # MsgOK
            /\ last.name \in DOMAIN domains
            /\ domains[last.name].persistent
            /\ domains[last.name].active

-----------------------------------------------------------------------------
(* SpecRenameRace: two calls that want the same new name, their hypervisor  *)
(* steps interleaved: two rename_vm calls for two different VMs, or a       *)
(* rename_vm and a create_vm of the new name.  Each call has opened its     *)
(* connection and looked up its VM; no external call fails for a reason of  *)
(* its own.                                                                 *)

\* the name both calls ask for: one that no VM has
NewName == NameOf[NumVms + 1]

BeginRenames ==
    /\ last = Idle
    /\ \E a \in DOMAIN domains, b \in DOMAIN domains \cup {""} :
          LET call(old) ==
                  [op |-> IF old = "" THEN "create_vm" ELSE "rename_vm",
                   old_name |-> old, result |-> "", defined |-> FALSE,
                   was_running |-> FALSE,
                   uuid |-> IF old = "" THEN FreshUuid(domains)
                            ELSE domains[old].xml.uuid,
                   pc |-> IF old = "" THEN "define" ELSE "stop"]
          IN  /\ a # b
              /\ domains[a].persistent
              /\ b # "" => domains[b].persistent
              /\ last' = [op |-> "concurrent_rename", name |-> NewName,
                          pre |-> domains,
                          calls |-> <<call(a), call(b)>>, returned |-> FALSE]
    /\ UNCHANGED <<cfgVars, hvVars, fsVars, netVars, prev>>

\* one step of a rename_vm call: the stop of a running VM (lines 957-965),
\* the check of the new name (967-974), XMLDesc and undefine (977-992),
\* defineXML (995), the restart (1000-1003)
RenameStep(c, new_name, doms, pre) ==
    LET r == _is_vm_running(doms, c.old_name, "none")
        p == _stop_vm(doms, c.old_name, FALSE, "none", TRUE)
        u == undefine(doms, c.old_name)
        d == defineXML(doms, [pre[c.old_name].xml EXCEPT !.name = new_name])
        s == _start_vm(doms, new_name, "none")
        end(msg) == [c EXCEPT !.pc = "done", !.result = msg]
    IN  IF c.pc = "stop"
        THEN IF r.error_msg # ""
             THEN [call |-> end(r.error_msg), doms |-> doms]
             ELSE IF ~r.is_running
             THEN [call |-> [c EXCEPT !.pc = "check"], doms |-> doms]
             ELSE IF ~p.success
             THEN [call |-> end(MsgStopForRename), doms |-> p.doms]
             ELSE [call |-> [c EXCEPT !.pc = "check", !.was_running = TRUE],
                   doms |-> p.doms]
        ELSE IF c.pc = "check"
        THEN IF new_name \in DOMAIN doms
             THEN [call |-> end(MsgExists), doms |-> doms]
             ELSE [call |-> [c EXCEPT !.pc = "undefine"], doms |-> doms]
        ELSE IF c.pc = "undefine"
        THEN IF ~u.ok
             THEN [call |-> end(MsgRenameFailed), doms |-> doms]
             ELSE [call |-> [c EXCEPT !.pc = "define"], doms |-> u.doms]
        ELSE IF c.pc = "define"
        THEN IF ~d.ok
             THEN [call |-> end(MsgRenameFailed), doms |-> doms]
             ELSE [call |-> IF c.was_running
                            THEN [c EXCEPT !.pc = "start", !.defined = TRUE]
                            ELSE [end(MsgOK) EXCEPT !.defined = TRUE],
                   doms |-> d.doms]
        ELSE [call |-> end(IF s.success THEN MsgOK ELSE MsgRestartFailed),
              doms |-> s.doms]

\* one step of the create_vm call: defineXML (line 1199), for which the
\* hypervisor draws a UUID that no domain has or had, then _start_vm
CreateNewStep(c, name, doms) ==
    LET domain_xml == _render_domain_xml(name, CloudInitSize.memory,
                                         CloudInitSize.cores,
                                         PlainPath(PathNoble), FixedMac,
                                         NoPath)
        d == defineXML(doms, [domain_xml EXCEPT !.uuid = c.uuid])
        s == _start_vm(doms, name, "none")
    IN  IF c.pc = "define" /\ d.ok
        THEN [call |-> [c EXCEPT !.pc = "start", !.defined = TRUE],
              doms |-> d.doms]
        ELSE IF c.pc = "define"
        THEN [call |-> [c EXCEPT !.pc = "done", !.result = MsgLibvirt],
              doms |-> doms]
        ELSE [call |-> [c EXCEPT !.pc = "done", !.result = s.message],
              doms |-> s.doms]

RenameRaceStep ==
    /\ last.op = "concurrent_rename"
    /\ \E i \in 1..2 :
          /\ last.calls[i].pc # "done"
          /\ LET c == last.calls[i]
                 s == IF c.op = "rename_vm"
                      THEN RenameStep(c, last.name, domains, last.pre)
                      ELSE CreateNewStep(c, last.name, domains)
                 calls == [last.calls EXCEPT ![i] = s.call]
             IN  /\ domains' = s.doms
                 /\ last' = [last EXCEPT
                                !.calls = calls,
                                !.returned = \A j \in 1..2 :
                                                calls[j].pc = "done"]
    /\ UNCHANGED <<cfgVars, fsVars, netVars, prev>>

NextRenameRace ==
    \/ CreateVm({PathNoble})
    \/ BeginRenames
    \/ RenameRaceStep
    \/ Respond

SpecRenameRace == Init /\ [][NextRenameRace]_vars

\* the VM that call i set out to rename is defined, under its old name or
\* under the new one
StillDefined(i) ==
    LET old == last.calls[i].old_name IN
    \E m \in {old, last.name} \cap DOMAIN domains :
        /\ domains[m].xml.uuid = last.pre[old].xml.uuid
        /\ domains[m].persistent

\* C36: two concurrent rename_vm calls that ask for the same new name for two
\* different VMs, or a rename_vm concurrent with a create_vm of the new name:
\* however their check, undefine and define steps interleave, when both have
\* returned every VM that was to be renamed is still defined, under its old
\* name or the new one, and at most one of the calls has returned OK
C36_ConcurrentRenamesKeepVms ==
    (last.op = "concurrent_rename" /\ last.returned) =>
        /\ \A i \in 1..2 : last.calls[i].op = "rename_vm" => StillDefined(i)
        /\ ~(last.calls[1].result = MsgOK /\ last.calls[2].result = MsgOK)

-----------------------------------------------------------------------------
(* SpecResolveRace: two requests resolve one URL at the same time, the      *)
(* steps of their _resolve_image_path calls interleaved                     *)

BeginResolves ==
    /\ last = Idle
    /\ \E url \in Urls :
          LET call == [pc |-> "exists", path |-> NoPath, error |-> "",
                       while_written |-> FALSE]
          IN  last' = [op |-> "concurrent_resolve", url |-> url,
                       was_cached |-> cacheFiles[_get_cache_path(url)],
                       calls |-> <<call, call>>, returned |-> FALSE]
    /\ UNCHANGED <<cfgVars, hvVars, fsVars, netVars, prev>>

\* one step of a call.  "exists": cache_path.exists() (line 391), which is
\* true of any file at the path, and the return of the path when it is;
\* "open": urlopen and open(cache_path, 'wb') (line 371), which creates or
\* truncates the file; "write": the chunks are copied until the end of the
\* response or an error (lines 373-381).  `writing`: the other call is
\* between its open and the end of its copying.
ResolveStep(c, url, cache, dl, writing) ==
    LET cache_path == _get_cache_path(url)
        d == _download_image(url, cache_path, cache, dl)
        done(path, error) ==
            [c EXCEPT !.pc = "done", !.path = path, !.error = error,
                      !.while_written = error = "" /\ writing]
    IN  IF c.pc = "exists"
        THEN IF cache[cache_path] # "absent"
             THEN [call |-> done(cache_path, ""), cache |-> cache]
             ELSE [call |-> [c EXCEPT !.pc = "open"], cache |-> cache]
        ELSE IF c.pc = "open"
        THEN IF dl = "refused"
             THEN [call |-> done(NoPath, "Failed to download image"),
                   cache |-> d.cache]
             ELSE [call |-> [c EXCEPT !.pc = "write"],
                   cache |-> [cache EXCEPT ![cache_path] = "partial"]]
        ELSE IF d.success
        THEN [call |-> done(cache_path, ""), cache |-> d.cache]
        ELSE [call |-> done(NoPath, "Failed to download image"),
              cache |-> d.cache]

ResolveRaceStep ==
    /\ last.op = "concurrent_resolve"
    /\ \E i \in 1..2, dl \in DownloadOutcomes :
          /\ last.calls[i].pc # "done"
          /\ last.calls[i].pc = "exists" => dl = "ok"
          /\ last.calls[i].pc = "open" => dl # "interrupted"
          /\ last.calls[i].pc = "write" => dl # "refused"
          /\ LET s == ResolveStep(last.calls[i], last.url, cacheFiles, dl,
                                  last.calls[3 - i].pc = "write")
                 calls == [last.calls EXCEPT ![i] = s.call]
             IN  /\ cacheFiles' = s.cache
                 /\ last' = [last EXCEPT
                                !.calls = calls,
                                !.returned = \A j \in 1..2 :
                                                calls[j].pc = "done"]
    /\ UNCHANGED <<cfgVars, hvVars, diskFiles, localFs, remoteFs, isoFiles,
                   netVars, prev>>

NextResolveRace ==
    \/ BeginResolves
    \/ ResolveRaceStep
    \/ Respond

SpecResolveRace == InitResolve /\ [][NextResolveRace]_vars

\* C37: when two requests resolve the same uncached URL concurrently, neither
\* returns the cache path while the other's download is still writing the
\* file at that path
C37_NoPathWhileDownloading ==
    (last.op = "concurrent_resolve" /\ last.was_cached = "absent") =>
        \A i \in 1..2 : ~last.calls[i].while_written

-----------------------------------------------------------------------------
(* SpecImages: get_os_image_path, behind the resource images://{os_name} *)

DataDir == "/data/libvirt/images"

\* the list `possible_paths`, in its order
possible_paths(os_name) ==
    <<[dir |-> ImagesDir, file |-> <<os_name, ".qcow2">>],
      [dir |-> DataDir, file |-> <<os_name, ".qcow2">>],
      [dir |-> ImagesDir, file |-> <<os_name, ".img">>],
      [dir |-> DataDir, file |-> <<os_name, ".img">>],
      [dir |-> ImagesDir, file |-> <<"ubuntu-24.04-server-cloudimg-amd64", ".img">>],
      [dir |-> ImagesDir, file |-> <<"noble-server-cloudimg-amd64", ".img">>],
      [dir |-> DataDir, file |-> <<"ubuntu-24.04-base", ".qcow2">>]>>

\* a lookup that returns the last path of the list that is there
GetOsImagePathLast(os_name, lfs, rfs, uri, down) ==
    LET paths == possible_paths(os_name)
        hit == {k \in 1..Len(paths) :
                   IF IsSsh(uri) THEN paths[k] \in rfs /\ k \notin down
                   ELSE paths[k] \in lfs}
    IN  IF hit = {} THEN paths[1]
        ELSE paths[CHOOSE k \in hit : \A j \in hit : j <= k]

\* `down`: the positions in the list whose ssh_cmd probe does not succeed
\* whatever is on the host (no connection, timeout); ssh_cmd returns False
\* for them and the loop goes on.  The fallback is the text of the first
\* entry of the list
get_os_image_path(os_name, lfs, rfs, uri, down) ==
    LET paths == possible_paths(os_name)
        hit == {k \in 1..Len(paths) :
                   IF IsSsh(uri) THEN paths[k] \in rfs /\ k \notin down
                   ELSE paths[k] \in lfs}
    IN  IF hit = {} THEN paths[1]
        ELSE paths[CHOOSE k \in hit : \A j \in hit : k <= j]

OsNames == {"noble", "jammy"}

\* the image files a host may hold
OsFiles ==
    {possible_paths("noble")[2], possible_paths("noble")[3],
     possible_paths("jammy")[1], possible_paths("noble")[6]}

ProbeFailures == {{}, {2}, {3}, 1..7}

GetOsImagePath ==
    /\ last = Idle
    /\ \E os_name \in OsNames,
          down \in IF IsSsh(LIBVIRT_DEFAULT_URI) THEN ProbeFailures ELSE {{}} :
          last' = [op |-> "get_os_image_path", os_name |-> os_name,
                   down |-> down,
                   result |-> get_os_image_path(os_name, localFs, remoteFs,
                                                LIBVIRT_DEFAULT_URI, down)]
    /\ UNCHANGED <<cfgVars, hvVars, fsVars, netVars, prev>>

InitImages ==
    /\ LIBVIRT_DEFAULT_URI \in Uris
    /\ tools = AllTools
    /\ domains = <<>>
    /\ cacheFiles = [p \in CachePaths |-> "absent"]
    /\ localFs \in SUBSET OsFiles
    /\ remoteFs \in SUBSET OsFiles
    /\ isoFiles = NoIso
    /\ diskFiles = NoDisk
    /\ agent = NoAgent
    /\ leases = <<>>
    /\ arpTable = [kind |-> "missing", lines |-> <<>>]
    /\ last = Idle
    /\ prev = Idle

NextImages ==
    \/ GetOsImagePath
    \/ Respond

SpecImages == InitImages /\ [][NextImages]_vars

\* the filesystem the lookup is about
TargetFs == IF IsSsh(LIBVIRT_DEFAULT_URI) THEN remoteFs ELSE localFs

\* C30 as stated: the result is the first path of the list that exists on
\* the target's filesystem; when none exists, or a remote probe that was
\* made failed, it is <images-dir>/<os_name>.qcow2
C30_FirstExistingPath ==
    last.op = "get_os_image_path" =>
        LET paths == possible_paths(last.os_name)
            there == {k \in 1..Len(paths) : paths[k] \in TargetFs}
            first == CHOOSE k \in there : \A j \in there : k <= j
            made == IF there = {} THEN 1..Len(paths) ELSE 1..first
        IN  IF there = {} \/ made \cap last.down # {}
            THEN last.result = paths[1]
            ELSE last.result = paths[first]

\* C30: the result is the first path of the list whose probe succeeds, that
\* is, which exists on the target's filesystem and, for an SSH target, whose
\* ssh_cmd did not fail; when no probe succeeds it is
\* <images-dir>/<os_name>.qcow2, whether or not that file exists
C30_FirstPathProbedPresent ==
    last.op = "get_os_image_path" =>
        LET paths == possible_paths(last.os_name)
            seen == {k \in 1..Len(paths) :
                        paths[k] \in TargetFs /\ k \notin last.down}
        IN  /\ seen = {} => last.result = paths[1]
            /\ seen # {} =>
                  /\ last.result \in TargetFs
                  /\ \E k \in seen :
                        /\ last.result = paths[k]
                        /\ \A j \in seen : k <= j

\* over SSH the second and the third path exist, the probe of the second
\* fails, and the third is returned
C30_Witness ==
    /\ last.op = "get_os_image_path"
    /\ IsSsh(LIBVIRT_DEFAULT_URI)
    /\ last.down = {2}
    /\ possible_paths(last.os_name)[2] \in remoteFs
    /\ last.result = possible_paths(last.os_name)[3]

-----------------------------------------------------------------------------
(* SpecQcow: the create variants that make an overlay disk with qemu-img    *)
(* and import it with virt-install --cloud-init.  The two handlers have     *)
(* the same body.                                                           *)

MsgBaseResolution == "Base image resolution failed"
MsgQcowFailed == "Failed to create qcow2 image"
MsgCopyFailed == "Failed to copy config files to remote host"
MsgVirtInstallRemote == "virt-install failed on remote host"
MsgVirtInstallMissing == "virt-install command not available"
MsgVirtInstallFailed == "virt-install failed"

qcow2_path(vm_name) == [dir |-> ImagesDir, file |-> <<vm_name, ".qcow2">>]

\* how the image creation ends: qemu-img and chown both succeed, qemu-img
\* fails and writes nothing, or qemu-img writes the image and chown fails
QcowOutcomes == {"ok", "create_fail", "chown_fail"}

\* qemu-img create writes a fresh overlay over whatever is at the path; a
\* failed chown is an error over SSH and is suppressed locally
create_qcow2_with_backing(disk, uri, q) ==
    IF q = "create_fail"
    THEN [success |-> FALSE, disk |-> disk]
    ELSE IF q = "chown_fail" /\ IsSsh(uri)
    THEN [success |-> FALSE, disk |-> "fresh"]
    ELSE [success |-> TRUE, disk |-> "fresh"]

\* what happens between the image creation and the end of virt-install
ImportOutcomes == {"ok", "copy_fail", "fail"}

\* virt-install --import: the domain is defined on the new disk and started,
\* and the guest writes to its disk; a name in use makes it fail
VirtInstallImport(doms, uri, tls, name, cores, memory, mac, vi) ==
    LET d == defineXML(doms, [name |-> name, uuid |-> 0, memory |-> memory,
                              cores |-> cores, disk_path |-> qcow2_path(name),
                              mac_address |-> mac, cdrom_path |-> NoPath])
    IN  IF IsSsh(uri) /\ vi = "copy_fail"
        THEN [result |-> MsgCopyFailed, doms |-> doms, defined |-> FALSE]
        ELSE IF IsSsh(uri) /\ (vi # "ok" \/ ~d.ok)
        THEN [result |-> MsgVirtInstallRemote, doms |-> doms,
              defined |-> FALSE]
        ELSE IF ~IsSsh(uri) /\ "virt_install" \notin tls
        THEN [result |-> MsgVirtInstallMissing, doms |-> doms,
              defined |-> FALSE]
        ELSE IF vi # "ok" \/ ~d.ok
        THEN [result |-> MsgVirtInstallFailed, doms |-> doms,
              defined |-> FALSE]
        ELSE [result |-> MsgOK, doms |-> create(d.doms, name),
              defined |-> TRUE]

\* dk: the file at <images-dir>/<name>.qcow2 of the hypervisor host
create_vm_with_modern_cloudinit(st, rq, dk, q) ==
    LET r == _resolve_image_path(rq.path, st.cache, st.lfs, st.rfs, st.uri,
                                 rq.dl, rq.ssh)
        c == create_qcow2_with_backing(dk, st.uri, q)
    IN  IF r.error # ""
        THEN [result |-> MsgBaseResolution, doms |-> st.doms,
              cache |-> r.cache, disk |-> dk, defined |-> FALSE]
        ELSE IF ~c.success
        THEN [result |-> MsgQcowFailed, doms |-> st.doms, cache |-> r.cache,
              disk |-> c.disk, defined |-> FALSE]
        ELSE LET v == VirtInstallImport(st.doms, st.uri, st.tls, rq.name,
                                        rq.cores, rq.memory, rq.mac, rq.vi)
             IN  [result |-> v.result, doms |-> v.doms, cache |-> r.cache,
                  disk |-> IF v.defined THEN "used" ELSE c.disk,
                  defined |-> v.defined]

create_vm_with_virt_install(st, rq, dk, q) ==
    create_vm_with_modern_cloudinit(st, rq, dk, q)

QcowCreate(op, c, host, name) ==
    /\ domains' = c.doms
    /\ cacheFiles' = c.cache
    /\ diskFiles' = [diskFiles EXCEPT ![host, name] = c.disk]
    /\ last' = [op |-> op, name |-> name, result |-> c.result, host |-> host,
                defined |-> c.defined,
                was_defined |-> name \in DOMAIN domains,
                disk_before |-> diskFiles[host, name]]
    /\ UNCHANGED <<cfgVars, localFs, remoteFs, isoFiles, netVars, prev>>

CreateVmWithModernCloudinit ==
    /\ last = Idle
    /\ \E name \in VmNames, path \in CloudInitRefs, mac \in RandomMacs,
          q \in QcowOutcomes, vi \in ImportOutcomes :
       \E ssh \in SshOf(path, LIBVIRT_DEFAULT_URI) :
          LET host == HvHost(LIBVIRT_DEFAULT_URI) IN
          QcowCreate("create_vm_with_modern_cloudinit",
                     create_vm_with_modern_cloudinit(
                         Host, Request(name, path, mac, "none", "ok", ssh,
                                       [exit |-> "zero", wrote |-> TRUE], vi,
                                       RemoteRun("ok", "ok", "ok"), FALSE),
                         diskFiles[host, name], q),
                     host, name)

CreateVmWithVirtInstall ==
    /\ last = Idle
    /\ \E name \in VmNames, path \in CloudInitRefs, mac \in RandomMacs,
          q \in QcowOutcomes, vi \in ImportOutcomes :
       \E ssh \in SshOf(path, LIBVIRT_DEFAULT_URI) :
          LET host == HvHost(LIBVIRT_DEFAULT_URI) IN
          QcowCreate("create_vm_with_virt_install",
                     create_vm_with_virt_install(
                         Host, Request(name, path, mac, "none", "ok", ssh,
                                       [exit |-> "zero", wrote |-> TRUE], vi,
                                       RemoteRun("ok", "ok", "ok"), FALSE),
                         diskFiles[host, name], q),
                     host, name)

NextQcow ==
    \/ CreateVmWithModernCloudinit
    \/ CreateVmWithVirtInstall
    \/ GuestPowerOff
    \/ DestroyVm
    \/ Respond

SpecQcow == InitCloudInit /\ [][NextQcow]_vars

QcowOps == {"create_vm_with_modern_cloudinit", "create_vm_with_virt_install"}

\* C33: a create_vm_with_modern_cloudinit or create_vm_with_virt_install call
\* that does not return OK leaves the file at <images-dir>/<name>.qcow2 as
\* it was before the call: the disk of a defined VM is not overwritten and
\* no new disk is left for a VM that was not defined
C33_FailedCreateKeepsDisks ==
    (last.op \in QcowOps /\ last.result # MsgOK) =>
        diskFiles[last.host, last.name] = last.disk_before

-----------------------------------------------------------------------------
(* SpecIso: VMs made by create_vm_with_cloudinit, then destroyed or renamed *)

NextIso ==
    \/ CreateVmWithCloudinit
    \/ DestroyVm
    \/ RenameVm
    \/ Respond

SpecIso == InitCloudInit /\ [][NextIso]_vars

\* the name was defined when the request came in and is not defined now
Released(n) ==
    /\ n \notin DOMAIN domains
    /\ \/ /\ last.op = "destroy_vm"
          /\ last.vm_name = n
          /\ last.was_active \/ last.was_stopped
       \/ /\ last.op = "rename_vm"
          /\ last.old_name = n
          /\ n \in DOMAIN last.pre

\* C34: every <images-dir>/<name>-cloudinit.iso belongs to a defined domain
\* of that name: a destroy_vm or rename_vm that takes the name away from the
\* hypervisor leaves no ISO of that name behind
C34_NoIsoWithoutDomain ==
    \A h \in {"local", "remote"}, n \in VmNames :
        Released(n) => ~isoFiles[h, n]

-----------------------------------------------------------------------------
(* SpecReadOnly: get_vm_ip, get_vm_config and list_vms.  Each handler is    *)
(* the hypervisor calls it makes, in the order of its code; the hypervisor  *)
(* after the request is what those calls leave.                             *)

MsgConfigFailed == "Failed to get configuration for VM"

\* the effect of one libvirt call on the hypervisor: the calls that change
\* its state, and every other call (look-ups, XMLDesc, isActive,
\* interfaceAddresses, DHCPLeases, listAllDomains, close), which changes none
ApiCall(doms, vm_name, call) ==
    IF vm_name \notin DOMAIN doms THEN doms
    ELSE CASE call = "create" -> create(doms, vm_name)
           [] call = "destroy" -> PowerOff(doms, vm_name)
           [] call = "undefine" -> undefine(doms, vm_name).doms
           [] OTHER -> doms

RECURSIVE ApiCalls(_, _, _, _)
ApiCalls(doms, vm_name, calls, k) ==
    IF k > Len(calls) THEN doms
    ELSE ApiCalls(ApiCall(doms, vm_name, calls[k]), vm_name, calls, k + 1)

ConfigFaults == {"none", "open", "lookup", "XMLDesc"}

\* what get_vm_config returns: the configuration, or an error text
ConfigOf(xml) == [error |-> "", config |-> <<xml>>]
ConfigError(msg) == [error |-> msg, config |-> <<>>]

\* a get_vm_config that undefines the domain it has read
GetVmConfigUndefining(doms, vm_name, fault) ==
    IF vm_name \in DOMAIN doms
    THEN [result |-> ConfigOf(doms[vm_name].xml),
          calls |-> <<"open", "lookupByName", "XMLDesc", "undefine",
                      "close">>]
    ELSE [result |-> ConfigError(MsgNotFound),
          calls |-> <<"open", "lookupByName", "close">>]

\* the XML of the domain, or the error of the call that failed
get_vm_config(doms, vm_name, fault) ==
    IF fault = "open"
    THEN [result |-> ConfigError(MsgLibvirt), calls |-> <<"open">>]
    ELSE IF vm_name \notin DOMAIN doms \/ fault = "lookup"
    THEN [result |-> ConfigError(MsgNotFound),
          calls |-> <<"open", "lookupByName", "close">>]
    ELSE IF fault = "XMLDesc"
    THEN [result |-> ConfigError(MsgConfigFailed),
          calls |-> <<"open", "lookupByName", "XMLDesc", "close">>]
    ELSE [result |-> ConfigOf(doms[vm_name].xml),
          calls |-> <<"open", "lookupByName", "XMLDesc", "close">>]

\* name -> id (only of an active domain), active, uuid, for every domain
list_vms(doms, fault) ==
    IF fault = "open"
    THEN [result |-> MsgLibvirt, calls |-> <<"open">>]
    ELSE [result |-> [n \in DOMAIN doms |->
                         [has_id |-> doms[n].active,
                          active |-> doms[n].active,
                          uuid |-> doms[n].xml.uuid]],
          calls |-> <<"open", "listAllDomains", "name", "isActive", "ID",
                      "UUIDString", "close">>]

\* the libvirt calls of one strategy of get_vm_ip; the ARP strategy runs
\* `arp -a` and makes none
StrategyCalls(strategy) ==
    IF strategy = "agent" THEN <<"interfaceAddresses">>
    ELSE IF strategy = "dhcp" THEN <<"networkLookupByName", "DHCPLeases">>
    ELSE <<>>

RECURSIVE ConsultedCalls(_, _)
ConsultedCalls(consulted, k) ==
    IF k > Len(consulted) THEN <<>>
    ELSE StrategyCalls(consulted[k]) \o ConsultedCalls(consulted, k + 1)

\* the hypervisor calls of get_vm_ip that led to its answer `r`
GetVmIpCalls(doms, vm_name, fault, r) ==
    IF fault = "open" THEN <<"open">>
    ELSE IF vm_name \notin DOMAIN doms \/ fault = "lookup"
    THEN <<"open", "lookupByName", "close">>
    ELSE IF r.kind = MsgNoInterfaces
    THEN <<"open", "lookupByName", "XMLDesc", "close">>
    ELSE <<"open", "lookupByName", "XMLDesc", "isActive">>
         \o ConsultedCalls(r.consulted, 1) \o <<"close">>

\* the hypervisor and the files as a request finds them
Snapshot ==
    [doms |-> domains, cache |-> cacheFiles, lfs |-> localFs,
     rfs |-> remoteFs, isos |-> isoFiles, disks |-> diskFiles]

ReadOnlyAnswer(op, vm_name, result, calls) ==
    /\ domains' = ApiCalls(domains, vm_name, calls, 1)
    /\ last' = [op |-> op, vm_name |-> vm_name, result |-> result,
                calls |-> calls, pre |-> Snapshot]
    /\ UNCHANGED <<cfgVars, fsVars, netVars, prev>>

ReadVmIp ==
    /\ last = Idle
    /\ \E vm_name \in VmNames, network_name \in Hints, fault \in IpFaults :
          LET r == get_vm_ip(domains, agent, leases, arpTable, vm_name,
                             network_name, fault)
          IN  ReadOnlyAnswer("get_vm_ip", vm_name, r,
                             GetVmIpCalls(domains, vm_name, fault, r))

GetVmConfig ==
    /\ last = Idle
    /\ \E vm_name \in VmNames, fault \in ConfigFaults :
          LET r == get_vm_config(domains, vm_name, fault)
          IN  ReadOnlyAnswer("get_vm_config", vm_name, r.result, r.calls)

ListVms ==
    /\ last = Idle
    /\ \E fault \in {"none", "open"} :
          LET r == list_vms(domains, fault)
          IN  ReadOnlyAnswer("list_vms", "", r.result, r.calls)

NextReadOnly ==
    \/ ReadVmIp
    \/ GetVmConfig
    \/ ListVms
    \/ GuestPowerOff
    \/ DestroyVm
    \/ Respond

SpecReadOnly == InitDiscover /\ [][NextReadOnly]_vars

ReadOnlyOps == {"get_vm_ip", "get_vm_config", "list_vms"}

\* C39: get_vm_ip, get_vm_config and list_vms leave the hypervisor and the
\* files as they found them, whatever they return: the same domains are
\* defined, each with the running state and the configuration it had, and
\* the image, cache and ISO files are the same
C39_ReadOnlyOpsChangeNothing ==
    last.op \in ReadOnlyOps =>
        /\ domains = last.pre.doms
        /\ cacheFiles = last.pre.cache
        /\ localFs = last.pre.lfs
        /\ remoteFs = last.pre.rfs
        /\ isoFiles = last.pre.isos
        /\ diskFiles = last.pre.disks

\* get_vm_config has returned the configuration of a running VM, which is
\* defined and running as before
C39_Witness ==
    /\ last.op = "get_vm_config"
    /\ last.vm_name \in DOMAIN domains
    /\ last.result = ConfigOf(domains[last.vm_name].xml)
    /\ domains[last.vm_name].active
    /\ domains = last.pre.doms

====
